---- MODULE Spec2Model ----
(***************************************************************************)
(* The AEZ climate-inference and crop-suitability engine of               *)
(* src/app/ml_models.py (class MLModels) as a state machine.               *)
(*                                                                         *)
(* Strings are sequences of one-character strings so that str.lower() and *)
(* the substring test `a in b` are computed, not assumed.                  *)
(* Floats are exact fixed-point numbers: a number record F(v) stands for   *)
(* the real v / Unit, NaN is a value of its own, and a standard deviation  *)
(* is kept as the radicand of its square root.                             *)
(***************************************************************************)
EXTENDS Integers, Sequences, FiniteSets, TLC

VARIABLES
    app,              \* "created" | "serving" | "exited" (main.py startup_event)
    models,           \* MLModels.models
    scalers,          \* MLModels.scalers
    encoders,         \* MLModels.encoders
    feature_cols,     \* MLModels.feature_cols
    crop_database,    \* MLModels.crop_database (None or a table)
    crop_columns,     \* MLModels.crop_columns
    weather_columns,  \* MLModels.weather_columns
    weather_by_aez,   \* MLModels.weather_by_aez (None or an ordered dict)
    models_loaded,    \* MLModels.models_loaded
    call,             \* the request being answered: operation and arguments
    ret,              \* what that request returned, or that it raised
    answered,         \* history: an earlier recommend_crops request, its
                      \* answer and how many requests were answered since
                      \* (0, 1, or 2 for more), or None
    load_log          \* what load_models and the aggregator have logged: the
                      \* columns of the two tables and the errors

vars == <<app, models, scalers, encoders, feature_cols, crop_database,
          crop_columns, weather_columns, weather_by_aez, models_loaded,
          call, ret, answered, load_log>>

refdata == <<models, scalers, encoders, feature_cols, crop_database,
             crop_columns, weather_columns, weather_by_aez, models_loaded>>

-----------------------------------------------------------------------------
(* Bounds of the model *)

\* most rows a weather file of the model carries
MaxWeatherRows == 2

-----------------------------------------------------------------------------
(* Python values *)

None == [k |-> "none"]

\* a dict that keeps insertion order: a sequence of key/value items
Dict(items) == [k |-> "dict", items |-> items]

EmptyDict == Dict(<<>>)

IsDict(d) == d.k = "dict"

DictKeys(d) == [i \in DOMAIN d.items |-> d.items[i].key]

DictHas(d, key) == \E i \in DOMAIN d.items : d.items[i].key = key

DictGet(d, key) == d.items[CHOOSE i \in DOMAIN d.items : d.items[i].key = key].val

\* d[key] = val
DictSet(d, key, val) ==
    IF DictHas(d, key)
    THEN Dict([i \in DOMAIN d.items |->
                 IF d.items[i].key = key THEN [key |-> key, val |-> val] ELSE d.items[i]])
    ELSE Dict(Append(d.items, [key |-> key, val |-> val]))

\* d.get(key, default)
DictGetOr(d, key, default) == IF DictHas(d, key) THEN DictGet(d, key) ELSE default

-----------------------------------------------------------------------------
(* Strings *)

UpperChars == <<"A","B","C","D","E","F","G","H","I","J","K","L","M",
                "N","O","P","Q","R","S","T","U","V","W","X","Y","Z">>

LowerChars == <<"a","b","c","d","e","f","g","h","i","j","k","l","m",
                "n","o","p","q","r","s","t","u","v","w","x","y","z">>

\* the lower-case letter of every upper-case letter
LowerOf ==
    [c \in {UpperChars[i] : i \in DOMAIN UpperChars} |->
        LowerChars[CHOOSE i \in DOMAIN UpperChars : UpperChars[i] = c]]

lower_char(c) == IF c \in DOMAIN LowerOf THEN LowerOf[c] ELSE c

\* str.lower()
lower(s) == [i \in 1..Len(s) |-> lower_char(s[i])]

\* Python's `needle in hay` on strings
str_in(needle, hay) ==
    \E off \in 0..(Len(hay) - Len(needle)) :
        \A i \in 1..Len(needle) : hay[off + i] = needle[i]

-----------------------------------------------------------------------------
(* Numbers *)

RECURSIVE Gcd(_, _)
Gcd(a, b) == IF b = 0 THEN a ELSE Gcd(b, a % b)

RECURSIVE LcmUpTo(_)
LcmUpTo(n) == IF n <= 2 THEN 2 ELSE LET l == LcmUpTo(n - 1) IN (l * n) \div Gcd(l, n)

\* the fixed-point denominator: every mean of at most MaxWeatherRows
\* integers, and every climate literal of the source (the finest is 2.5),
\* is a whole number of 1/Unit
Unit == LcmUpTo(MaxWeatherRows)

F(v) == [k |-> "num", v |-> v]

NaN == [k |-> "nan"]

\* a float literal of the source, given in tenths (25.0 is Lit(250))
Lit(tenths) == F((tenths * Unit) \div 10)

\* the float of an integer cell
Whole(n) == F(n * Unit)

IsNum(x) == x.k = "num"

\* pd.isna / pd.notna
isna(x) == x.k = "nan"

\* comparisons of floats: every comparison with NaN is False
Le(a, b) == IsNum(a) /\ IsNum(b) /\ a.v <= b.v

Lt(a, b) == IsNum(a) /\ IsNum(b) /\ a.v < b.v

Gt(a, b) == Lt(b, a)

RECURSIVE SumSeq(_)
SumSeq(xs) == IF xs = <<>> THEN 0 ELSE Head(xs) + SumSeq(Tail(xs))

\* Series.mean() of integer cells: NaN on an empty series
Mean(xs) == IF xs = <<>> THEN NaN ELSE F((SumSeq(xs) * Unit) \div Len(xs))

\* Series.std() (ddof = 1) of integer cells, times sqrt(scale): NaN below
\* two samples, else sqrt(n / d) kept as its radicand
Std(xs, scale) ==
    IF Len(xs) < 2 THEN NaN
    ELSE LET n  == Len(xs)
             s  == SumSeq(xs)
             sq == SumSeq([i \in 1..n |-> xs[i] * xs[i]])
         IN  [k |-> "sqrt", n |-> scale * (n * sq - s * s), d |-> n * (n - 1)]

-----------------------------------------------------------------------------
(* Climate Lookup: get_aez_climate_data and _get_default_climate_data *)

HighlandsHumid == <<"H","i","g","h","l","a","n","d","s"," ","(","H","u","m","i","d",")">>

UpperMidlands == <<"U","p","p","e","r"," ","M","i","d","l","a","n","d","s"," ","(",
                   "H","i","g","h"," ","P","o","t","e","n","t","i","a","l",")">>

LowerMidlands == <<"L","o","w","e","r"," ","M","i","d","l","a","n","d","s"," ","(",
                   "S","e","m","i","-","A","r","i","d",")">>

CoastalLowlands == <<"C","o","a","s","t","a","l"," ","L","o","w","l","a","n","d","s"," ","(",
                     "H","u","m","i","d",")">>

AridLowlands == <<"A","r","i","d"," ","L","o","w","l","a","n","d","s"," ","(","A","r","i","d",")">>

ClimateSummary(t, r, h, s, tv, rv) ==
    [avg_temperature |-> t, avg_rainfall |-> r, avg_humidity |-> h,
     avg_solar |-> s, temp_variability |-> tv, rainfall_variability |-> rv]

defaults ==
    Dict(<< [key |-> HighlandsHumid,
             val |-> ClimateSummary(Lit(180), Lit(15000), Lit(750), Lit(1800), Lit(20), Lit(3000))],
            [key |-> UpperMidlands,
             val |-> ClimateSummary(Lit(220), Lit(12000), Lit(700), Lit(2000), Lit(25), Lit(2500))],
            [key |-> LowerMidlands,
             val |-> ClimateSummary(Lit(260), Lit(7000), Lit(550), Lit(2200), Lit(30), Lit(2000))],
            [key |-> CoastalLowlands,
             val |-> ClimateSummary(Lit(280), Lit(11000), Lit(800), Lit(2100), Lit(20), Lit(2500))],
            [key |-> AridLowlands,
             val |-> ClimateSummary(Lit(300), Lit(3500), Lit(400), Lit(2400), Lit(40), Lit(1500))] >>)

generic_default ==
    ClimateSummary(Lit(250), Lit(10000), Lit(650), Lit(2000), Lit(25), Lit(2000))

\* the partial match of _get_default_climate_data, on one key
partial_match(key, aez) ==
    str_in(lower(key), lower(aez)) \/ str_in(lower(aez), lower(key))

\* mutant: the generic fallback carries the Aggregator's humidity default
_get_default_climate_data_humidity70(aez) ==
    IF DictHas(defaults, aez) THEN DictGet(defaults, aez)
    ELSE IF \E i \in DOMAIN defaults.items : partial_match(defaults.items[i].key, aez)
    THEN LET first == CHOOSE i \in DOMAIN defaults.items :
                          /\ partial_match(defaults.items[i].key, aez)
                          /\ \A j \in 1..(i - 1) : ~partial_match(defaults.items[j].key, aez)
         IN  defaults.items[first].val
    ELSE [generic_default EXCEPT !.avg_humidity = Lit(700)]

_get_default_climate_data(aez) ==
    IF DictHas(defaults, aez) THEN DictGet(defaults, aez)
    ELSE IF \E i \in DOMAIN defaults.items : partial_match(defaults.items[i].key, aez)
    THEN LET first == CHOOSE i \in DOMAIN defaults.items :
                          /\ partial_match(defaults.items[i].key, aez)
                          /\ \A j \in 1..(i - 1) : ~partial_match(defaults.items[j].key, aez)
         IN  defaults.items[first].val
    ELSE generic_default

\* the case-insensitive match of get_aez_climate_data, on one key
case_match(key, aez) == lower(key) = lower(aez)

\* mutant: an AEZ without a computed summary gets None instead of a default
get_aez_climate_data_no_default(w, aez) ==
    IF IsDict(w) /\ DictHas(w, aez) THEN DictGet(w, aez)
    ELSE IF IsDict(w) /\ \E i \in DOMAIN w.items : case_match(w.items[i].key, aez)
    THEN LET first == CHOOSE i \in DOMAIN w.items :
                          /\ case_match(w.items[i].key, aez)
                          /\ \A j \in 1..(i - 1) : ~case_match(w.items[j].key, aez)
         IN  w.items[first].val
    ELSE None

\* mutant: the default table is consulted before the case-insensitive pass
get_aez_climate_data_default_first(w, aez) ==
    IF IsDict(w) /\ DictHas(w, aez) THEN DictGet(w, aez)
    ELSE IF DictHas(defaults, aez) THEN DictGet(defaults, aez)
    ELSE IF IsDict(w) /\ \E i \in DOMAIN w.items : case_match(w.items[i].key, aez)
    THEN LET first == CHOOSE i \in DOMAIN w.items :
                          /\ case_match(w.items[i].key, aez)
                          /\ \A j \in 1..(i - 1) : ~case_match(w.items[j].key, aez)
         IN  w.items[first].val
    ELSE _get_default_climate_data(aez)

get_aez_climate_data(w, aez) ==
    IF IsDict(w) /\ DictHas(w, aez) THEN DictGet(w, aez)
    ELSE IF IsDict(w) /\ \E i \in DOMAIN w.items : case_match(w.items[i].key, aez)
    THEN LET first == CHOOSE i \in DOMAIN w.items :
                          /\ case_match(w.items[i].key, aez)
                          /\ \A j \in 1..(i - 1) : ~case_match(w.items[j].key, aez)
         IN  w.items[first].val
    ELSE _get_default_climate_data(aez)

-----------------------------------------------------------------------------
(* Schema Reconciler: _detect_crop_columns and _detect_weather_columns *)

crop_column_mappings ==
    << [std |-> "comname",        names |-> <<"COMNAME", "comname", "common_name", "name", "crop_name">>],
       [std |-> "scientificname", names |-> <<"ScientificName", "scientificname", "SCIENTIFICNAME", "scientific_name">>],
       [std |-> "tmin",   names |-> <<"TMIN", "tmin", "t_min", "temp_min">>],
       [std |-> "tmax",   names |-> <<"TMAX", "tmax", "t_max", "temp_max">>],
       [std |-> "topmn",  names |-> <<"TOPMN", "topmn", "topt_min", "temp_opt_min">>],
       [std |-> "topmx",  names |-> <<"TOPMX", "topmx", "topt_max", "temp_opt_max">>],
       [std |-> "rmin",   names |-> <<"RMIN", "rmin", "r_min", "rain_min", "rainfall_min">>],
       [std |-> "rmax",   names |-> <<"RMAX", "rmax", "r_max", "rain_max", "rainfall_max">>],
       [std |-> "ropmn",  names |-> <<"ROPMN", "ropmn", "ropt_min", "rain_opt_min">>],
       [std |-> "ropmx",  names |-> <<"ROPMX", "ropmx", "ropt_max", "rain_opt_max">>],
       [std |-> "phopmn", names |-> <<"PHOPMN", "phopmn", "ph_min", "phmin">>],
       [std |-> "phopmx", names |-> <<"PHOPMX", "phopmx", "ph_max", "phmax">>],
       [std |-> "gmin",   names |-> <<"GMIN", "gmin", "growth_min", "days_min">>],
       [std |-> "gmax",   names |-> <<"GMAX", "gmax", "growth_max", "days_max">>] >>

weather_column_mappings ==
    << [std |-> "aez",         names |-> <<"AEZ", "aez", "zone", "agro_ecological_zone">>],
       [std |-> "prectotcorr", names |-> <<"PRECTOTCORR", "prectotcorr", "precipitation", "rainfall", "rain">>],
       [std |-> "t2m",         names |-> <<"T2M", "t2m", "temperature", "temp">>],
       [std |-> "rh2m",        names |-> <<"RH2M", "rh2m", "humidity", "relative_humidity">>],
       [std |-> "allsky_sfc_sw_dwn",
        names |-> <<"ALLSKY_SFC_SW_DWN", "allsky_sfc_sw_dwn", "solar_radiation", "radiation">>],
       [std |-> "date",        names |-> <<"date", "DATE", "datetime", "time">>] >>

\* mutant: the last of possible_names that is among cols
last_present(possible_names, cols) ==
    IF \E i \in DOMAIN possible_names : possible_names[i] \in cols
    THEN possible_names[CHOOSE i \in DOMAIN possible_names :
                            /\ possible_names[i] \in cols
                            /\ \A j \in (i + 1)..Len(possible_names) : possible_names[j] \notin cols]
    ELSE "(none)"

\* the inner loop: the first of possible_names that is among cols, or None
first_present(possible_names, cols) ==
    IF \E i \in DOMAIN possible_names : possible_names[i] \in cols
    THEN possible_names[CHOOSE i \in DOMAIN possible_names :
                            /\ possible_names[i] \in cols
                            /\ \A j \in 1..(i - 1) : possible_names[j] \notin cols]
    ELSE "(none)"

\* the outer loop over column_mappings.items(), writing into `columns`
RECURSIVE detect_columns(_, _, _)
detect_columns(column_mappings, cols, columns) ==
    IF column_mappings = <<>> THEN columns
    ELSE LET m     == Head(column_mappings)
             found == first_present(m.names, cols)
         IN  detect_columns(Tail(column_mappings), cols,
                            IF found = "(none)" THEN columns
                            ELSE DictSet(columns, m.std, found))

_detect_crop_columns(cols, columns) == detect_columns(crop_column_mappings, cols, columns)

_detect_weather_columns(cols, columns) == detect_columns(weather_column_mappings, cols, columns)

-----------------------------------------------------------------------------
(* Climate Aggregator: _compute_weather_by_aez *)

\* A weather table is [cols, rows, date_ok, text]: the headers of the file,
\* its rows, whether pd.to_datetime can parse the date column, and the rows
\* whose temperature cell holds text instead of a number.  A row is
\* [aez, yr, p, t, h, s]; the cell under a header is the row's field that
\* the header spells.
WeatherField(col) ==
    CASE col \in {"AEZ", "aez", "zone", "agro_ecological_zone"} -> "aez"
      [] col \in {"PRECTOTCORR", "prectotcorr", "precipitation", "rainfall", "rain"} -> "p"
      [] col \in {"T2M", "t2m", "temperature", "temp"} -> "t"
      [] col \in {"RH2M", "rh2m", "humidity", "relative_humidity"} -> "h"
      [] col \in {"ALLSKY_SFC_SW_DWN", "allsky_sfc_sw_dwn", "solar_radiation", "radiation"} -> "s"
      [] col \in {"date", "DATE", "datetime", "time", "year"} -> "yr"

\* the column of a table as a sequence of cells
Column(rows, col) == [i \in DOMAIN rows |-> rows[i][WeatherField(col)]]

\* Series.unique(): the values in order of first appearance
RECURSIVE unique(_)
unique(xs) ==
    IF xs = <<>> THEN <<>>
    ELSE LET n    == Len(xs)
             u    == unique(SubSeq(xs, 1, n - 1))
         IN  IF \E i \in DOMAIN u : u[i] = xs[n] THEN u ELSE Append(u, xs[n])

\* groupby('year')[precip_col].sum(): one sum per year present (the mean
\* and the deviation of the sums do not depend on their order)
RECURSIVE annual_sums(_, _, _)
annual_sums(rows, precip_col, years) ==
    IF years = {} THEN <<>>
    ELSE LET y  == CHOOSE y \in years : \A z \in years : y <= z
             of == SelectSeq(rows, LAMBDA r : r.yr = y)
         IN  <<SumSeq(Column(of, precip_col))>> \o annual_sums(rows, precip_col, years \ {y})

\* mutant: the rainfall is always the daily mean times 365
aez_summary_always_daily(cols, rows, aez, aez_col, precip_col, temp_col, humidity_col, solar_col) ==
    LET aez_data      == SelectSeq(rows, LAMBDA r : r[WeatherField(aez_col)] = aez)
        daily         == Column(aez_data, precip_col)
        avg_rainfall  == LET m == Mean(daily) IN IF IsNum(m) THEN F(m.v * 365) ELSE m
        rainfall_std  == Std(daily, 365)
    IN  ClimateSummary(
            IF temp_col \in cols THEN Mean(Column(aez_data, temp_col)) ELSE Lit(250),
            IF ~isna(avg_rainfall) THEN avg_rainfall ELSE Lit(10000),
            IF humidity_col \in cols THEN Mean(Column(aez_data, humidity_col)) ELSE Lit(700),
            IF solar_col \in cols THEN Mean(Column(aez_data, solar_col)) ELSE Lit(2000),
            IF temp_col \in cols THEN Std(Column(aez_data, temp_col), 1) ELSE Lit(20),
            IF ~isna(rainfall_std) THEN rainfall_std ELSE Lit(2000))

\* lines 199-218: the summary of one AEZ
aez_summary(cols, rows, aez, aez_col, precip_col, temp_col, humidity_col, solar_col) ==
    LET aez_data      == SelectSeq(rows, LAMBDA r : r[WeatherField(aez_col)] = aez)
        annual_precip == annual_sums(aez_data, precip_col, {aez_data[i].yr : i \in DOMAIN aez_data})
        daily         == Column(aez_data, precip_col)
        avg_rainfall  == IF "year" \in cols THEN Mean(annual_precip)
                         ELSE LET m == Mean(daily) IN IF IsNum(m) THEN F(m.v * 365) ELSE m
        rainfall_std  == IF "year" \in cols THEN Std(annual_precip, 1) ELSE Std(daily, 365)
    IN  ClimateSummary(
            IF temp_col \in cols THEN Mean(Column(aez_data, temp_col)) ELSE Lit(250),
            IF ~isna(avg_rainfall) THEN avg_rainfall ELSE Lit(10000),
            IF humidity_col \in cols THEN Mean(Column(aez_data, humidity_col)) ELSE Lit(700),
            IF solar_col \in cols THEN Mean(Column(aez_data, solar_col)) ELSE Lit(2000),
            IF temp_col \in cols THEN Std(Column(aez_data, temp_col), 1) ELSE Lit(20),
            IF ~isna(rainfall_std) THEN rainfall_std ELSE Lit(2000))

\* what the try block raises: pd.to_datetime on an unparsable date column,
\* KeyError on a missing AEZ column, KeyError on a missing precipitation
\* column once there is an AEZ to aggregate, TypeError from Series.mean() on
\* the temperature cells of an AEZ when one of them holds text (line 212)
aggregation_raises(columns, weather_data) ==
    LET aez_col    == DictGetOr(columns, "aez", "aez")
        precip_col == DictGetOr(columns, "prectotcorr", "prectotcorr")
        date_col   == DictGetOr(columns, "date", "date")
        temp_col   == DictGetOr(columns, "t2m", "t2m")
    IN  \/ date_col \in weather_data.cols /\ ~weather_data.date_ok
        \/ aez_col \notin weather_data.cols
        \/ weather_data.rows # <<>> /\ precip_col \notin weather_data.cols
        \/ temp_col \in weather_data.cols /\ weather_data.text # {}

\* line 193 is reached: the dates parsed and the AEZ column exists
zones_found(columns, weather_data) ==
    /\ DictGetOr(columns, "date", "date") \in weather_data.cols => weather_data.date_ok
    /\ DictGetOr(columns, "aez", "aez") \in weather_data.cols

\* lines 193 and 224: what one run of the aggregator logs
aggregator_log(columns, weather_data) ==
    (IF zones_found(columns, weather_data)
     THEN <<[msg   |-> "Found AEZ zones in data",
             zones |-> unique(Column(weather_data.rows, DictGetOr(columns, "aez", "aez")))]>>
     ELSE <<>>)
    \o (IF aggregation_raises(columns, weather_data)
        THEN <<[msg |-> "Error computing weather by AEZ"]>>
        ELSE <<>>)

\* mutant: a failed aggregation leaves no table at all
_compute_weather_by_aez_none_on_error(columns, weather_data) ==
    IF aggregation_raises(columns, weather_data) THEN None
    ELSE Dict(<<>>)

_compute_weather_by_aez(columns, weather_data) ==
    LET aez_col      == DictGetOr(columns, "aez", "aez")
        precip_col   == DictGetOr(columns, "prectotcorr", "prectotcorr")
        temp_col     == DictGetOr(columns, "t2m", "t2m")
        humidity_col == DictGetOr(columns, "rh2m", "rh2m")
        solar_col    == DictGetOr(columns, "allsky_sfc_sw_dwn", "allsky_sfc_sw_dwn")
        date_col     == DictGetOr(columns, "date", "date")
        cols         == IF date_col \in weather_data.cols
                        THEN weather_data.cols \cup {"year"} ELSE weather_data.cols
    IN  IF aggregation_raises(columns, weather_data) THEN EmptyDict
        ELSE LET unique_aez == unique(Column(weather_data.rows, aez_col))
             IN  Dict([i \in DOMAIN unique_aez |->
                         [key |-> unique_aez[i],
                          val |-> aez_summary(cols, weather_data.rows, unique_aez[i], aez_col,
                                              precip_col, temp_col, humidity_col, solar_col)]])

-----------------------------------------------------------------------------
(* Startup: MLModels.__init__, load_models, main.startup_event *)

\* the joblib.load calls of load_models in order: the dict written, its
\* key, the artifact file read
load_order ==
    << [into |-> "models",       key |-> "rainfall_classifier", file |-> "rainfall_classifier"],
       [into |-> "models",       key |-> "rainfall_regressor",  file |-> "rainfall_regressor"],
       [into |-> "scalers",      key |-> "rainfall",            file |-> "scaler_rainfall"],
       [into |-> "encoders",     key |-> "aez_label",           file |-> "aez_label_encoder"],
       [into |-> "encoders",     key |-> "aez_onehot",          file |-> "aez_onehot_encoder"],
       [into |-> "feature_cols", key |-> "rainfall",            file |-> "rainfall_feature_columns"],
       [into |-> "models",       key |-> "crop_recommendation", file |-> "crop_recommendation_model"],
       [into |-> "scalers",      key |-> "crop",                file |-> "scaler_crop"],
       [into |-> "encoders",     key |-> "crop_label",          file |-> "crop_label_encoder"],
       [into |-> "encoders",     key |-> "aez_label_crop",      file |-> "aez_label_encoder_crop"],
       [into |-> "encoders",     key |-> "aez_onehot_crop",     file |-> "aez_onehot_encoder_crop"],
       [into |-> "feature_cols", key |-> "crop",                file |-> "crop_feature_columns"] >>

\* the position of the two read_csv calls after the joblib loads
CropCsvStep == Len(load_order) + 1

WeatherCsvStep == Len(load_order) + 2

\* A disk is [artifacts, crop_csv, weather_csv, unreadable]: the content of
\* the files and the step (0 for none) whose file cannot be read.
\* the dict `into` after the first n joblib loads
RECURSIVE loaded_into(_, _, _, _)
loaded_into(d, into, n, disk) ==
    IF n = 0 THEN d
    ELSE LET prev == loaded_into(d, into, n - 1, disk)
             step == load_order[n]
         IN  IF step.into = into THEN DictSet(prev, step.key, disk.artifacts[step.file]) ELSE prev

\* the step at which load_models raises, 0 when it completes
load_raises_at(disk) == disk.unreadable

load_models(disk) ==
    LET stop     == load_raises_at(disk)
        done     == IF stop = 0 THEN WeatherCsvStep ELSE stop - 1
        njoblib  == IF done < Len(load_order) THEN done ELSE Len(load_order)
        crop_in  == done >= CropCsvStep
        wcolumns == _detect_weather_columns(disk.weather_csv.cols, weather_columns)
    IN  /\ models'          = loaded_into(models, "models", njoblib, disk)
        /\ scalers'         = loaded_into(scalers, "scalers", njoblib, disk)
        /\ encoders'        = loaded_into(encoders, "encoders", njoblib, disk)
        /\ feature_cols'    = loaded_into(feature_cols, "feature_cols", njoblib, disk)
        /\ crop_database'   = IF crop_in THEN disk.crop_csv ELSE crop_database
        /\ crop_columns'    = IF crop_in THEN _detect_crop_columns(disk.crop_csv.cols, crop_columns)
                              ELSE crop_columns
        /\ weather_columns' = IF stop = 0 THEN wcolumns ELSE weather_columns
        /\ weather_by_aez'  = IF stop = 0 THEN _compute_weather_by_aez(wcolumns, disk.weather_csv)
                              ELSE weather_by_aez
        /\ models_loaded'   = IF stop = 0 THEN TRUE ELSE models_loaded
        /\ ret'             = IF stop = 0 THEN [k |-> "value", val |-> None] ELSE [k |-> "raise"]
        /\ load_log'        =
              (IF crop_in
               THEN <<[msg |-> "Loaded crop database with columns", columns |-> disk.crop_csv.cols]>>
               ELSE <<>>)
              \o (IF stop = 0
                  THEN <<[msg |-> "Loaded weather data with columns", columns |-> disk.weather_csv.cols]>>
                  ELSE <<>>)
              \o (IF stop = 0 THEN aggregator_log(wcolumns, disk.weather_csv) ELSE <<>>)
              \o (IF stop # 0 THEN <<[msg |-> "Error loading models"]>> ELSE <<>>)

\* mutant: the startup event swallows the exception of load_models
startup_event_swallowing(disk) ==
    /\ app = "created"
    /\ call' = [op |-> "load_models"]
    /\ load_models(disk)
    /\ app' = "serving"
    /\ UNCHANGED answered

\* main.py: load_models runs once, in the startup event; an exception there
\* ends the application before it serves a request
startup_event(disk) ==
    /\ app = "created"
    /\ call' = [op |-> "load_models"]
    /\ load_models(disk)
    /\ app' = IF load_raises_at(disk) = 0 THEN "serving" ELSE "exited"
    /\ UNCHANGED answered

\* mutant: a request clears the column mappings
ReadOnly_clearing_columns ==
    /\ crop_columns' = EmptyDict
    /\ UNCHANGED <<app, load_log, models, scalers, encoders, feature_cols, crop_database,
                   weather_columns, weather_by_aez, models_loaded>>

\* lines 229-629: no request-time method assigns an attribute of MLModels,
\* (their log lines are not kept)
ReadOnly == UNCHANGED <<app, load_log, refdata>>

\* one more request answered since the one the history holds
Tick(h) == IF h = None THEN None ELSE [h EXCEPT !.later = IF @ < 2 THEN @ + 1 ELSE 2]

\* a caller has its answer: the engine is free for the next request (every
\* method of MLModels is synchronous, so requests run one at a time)
Return ==
    /\ app = "serving"
    /\ call.op # "idle"
    /\ call' = [op |-> "idle"]
    /\ ret' = [k |-> "value", val |-> None]
    /\ UNCHANGED <<app, load_log, refdata, answered>>

Idle == app = "serving" /\ call.op = "idle"

Init ==
    /\ app = "created"
    /\ models = EmptyDict
    /\ scalers = EmptyDict
    /\ encoders = EmptyDict
    /\ feature_cols = EmptyDict
    /\ crop_database = None
    /\ weather_by_aez = None
    /\ models_loaded = FALSE
    /\ crop_columns = EmptyDict
    /\ weather_columns = EmptyDict
    /\ call = [op |-> "__init__"]
    /\ ret = [k |-> "value", val |-> None]
    /\ answered = None
    /\ load_log = <<>>

-----------------------------------------------------------------------------
(* Requests *)

GetAezClimateData(aez) ==
    /\ Idle
    /\ call' = [op |-> "get_aez_climate_data", aez |-> aez]
    /\ ret' = [k |-> "value", val |-> get_aez_climate_data(weather_by_aez, aez)]
    /\ answered' = Tick(answered)
    /\ ReadOnly

-----------------------------------------------------------------------------
(* Rainfall Forecaster: predict_rainfall *)

\* The fitted artifacts are opaque to the source; the model gives each a
\* content that fixes its answers.  A label encoder is [classes], a one-hot
\* encoder [categories], a scaler [n_features_in], a predictor an identifier
\* of the deterministic fakes below.

\* LabelEncoder.transform([aez])[0]: the index of aez, ValueError if unseen
label_transform(encoder, aez) ==
    IF \E i \in DOMAIN encoder.classes : encoder.classes[i] = aez
    THEN [k |-> "value", val |-> (CHOOSE i \in DOMAIN encoder.classes : encoder.classes[i] = aez) - 1]
    ELSE [k |-> "ValueError"]

\* OneHotEncoder.transform([[aez]])[0]: the indicator row, ValueError if unseen
onehot_transform(encoder, aez) ==
    IF \E i \in DOMAIN encoder.categories : encoder.categories[i] = aez
    THEN [k |-> "value", val |-> [i \in DOMAIN encoder.categories |->
                                     IF encoder.categories[i] = aez THEN 1 ELSE 0]]
    ELSE [k |-> "ValueError"]

\* lines 299-303
aez_encoded_of(aez) ==
    LET t == label_transform(DictGet(encoders, "aez_label"), aez)
    IN  IF t.k = "ValueError" THEN 0 ELSE t.val

\* lines 306-309
aez_onehot_of(aez) ==
    LET t == onehot_transform(DictGet(encoders, "aez_onehot"), aez)
    IN  IF t.k = "ValueError"
        THEN [i \in DOMAIN DictGet(encoders, "aez_onehot").categories |-> 0]
        ELSE t.val

\* line 315
\* mutant: the loop starts at the month after current_month
month_of_from_next(current_month, i) == ((current_month + i) % 12) + 1

month_of(current_month, i) == ((current_month + i - 1) % 12) + 1

\* line 316
day_of_year_of(month) == (month - 1) * 30 + 15

\* line 317
week_of_year_of(month) == (day_of_year_of(month) \div 7) + 1

\* a float divided by an integer: the quotient in 1/Unit, floored to the grid
FDiv(x, n) == IF IsNum(x) THEN F(x.v \div n) ELSE x

\* lines 322-349; month_sin and month_cos are functions of the month and are
\* carried as the month they are taken of
base_features(climate_data, month, aez_encoded) ==
    Dict(<< [key |-> <<"t2m">>,               val |-> climate_data.avg_temperature],
            [key |-> <<"rh2m">>,              val |-> climate_data.avg_humidity],
            [key |-> <<"allsky_sfc_sw_dwn">>, val |-> climate_data.avg_solar],
            [key |-> <<"month">>,             val |-> Whole(month)],
            [key |-> <<"day_of_year">>,       val |-> Whole(day_of_year_of(month))],
            [key |-> <<"week_of_year">>,      val |-> Whole(week_of_year_of(month))],
            [key |-> <<"month_sin">>,         val |-> [k |-> "sin", month |-> month]],
            [key |-> <<"month_cos">>,         val |-> [k |-> "cos", month |-> month]],
            [key |-> <<"aez_encoded">>,       val |-> Whole(aez_encoded)],
            [key |-> <<"rainfall_lag_1">>,    val |-> FDiv(climate_data.avg_rainfall, 365)],
            [key |-> <<"rainfall_lag_3">>,    val |-> FDiv(climate_data.avg_rainfall, 365)],
            [key |-> <<"rainfall_lag_7">>,    val |-> FDiv(climate_data.avg_rainfall, 365)],
            [key |-> <<"rainfall_lag_14">>,   val |-> FDiv(climate_data.avg_rainfall, 365)],
            [key |-> <<"temp_lag_1">>,        val |-> climate_data.avg_temperature],
            [key |-> <<"temp_lag_3">>,        val |-> climate_data.avg_temperature],
            [key |-> <<"temp_lag_7">>,        val |-> climate_data.avg_temperature],
            [key |-> <<"humidity_lag_1">>,    val |-> climate_data.avg_humidity],
            [key |-> <<"humidity_lag_3">>,    val |-> climate_data.avg_humidity],
            [key |-> <<"humidity_lag_7">>,    val |-> climate_data.avg_humidity],
            [key |-> <<"rainfall_7d_avg">>,   val |-> FDiv(climate_data.avg_rainfall, 52)],
            [key |-> <<"rainfall_14d_avg">>,  val |-> FDiv(climate_data.avg_rainfall, 26)],
            [key |-> <<"rainfall_30d_avg">>,  val |-> FDiv(climate_data.avg_rainfall, 12)],
            [key |-> <<"rainfall_7d_std">>,   val |-> [k |-> "div", x |-> climate_data.rainfall_variability, by |-> 52]],
            [key |-> <<"rainfall_14d_std">>,  val |-> [k |-> "div", x |-> climate_data.rainfall_variability, by |-> 26]],
            [key |-> <<"temp_7d_avg">>,       val |-> climate_data.avg_temperature],
            [key |-> <<"temp_14d_avg">>,      val |-> climate_data.avg_temperature] >>)

\* A feature column is <<name>>, or <<"aez_", label>> for the one-hot column
\* of an AEZ label (col.startswith('aez_') and col != 'aez_encoded').
\* lines 353-366: the value of one column
feature_value(col, base, aez_onehot) ==
    IF Len(col) = 2
    THEN LET categories == DictGet(encoders, "aez_onehot").categories
         IN  IF \E i \in DOMAIN categories : categories[i] = col[2]
             THEN Whole(aez_onehot[CHOOSE i \in DOMAIN categories : categories[i] = col[2]])
             ELSE Whole(0)
    ELSE DictGetOr(base, col, Whole(0))

\* lines 352-369: the row X, in the order of feature_cols['rainfall']
feature_row(climate_data, month, aez_encoded, aez_onehot) ==
    LET columns == DictGet(feature_cols, "rainfall")
        base    == base_features(climate_data, month, aez_encoded)
    IN  [i \in DOMAIN columns |-> [col |-> columns[i], val |-> feature_value(columns[i], base, aez_onehot)]]

\* the value of a named column of X, 0 when X does not carry it
XGet(X, name) ==
    IF \E i \in DOMAIN X : X[i].col = <<name>>
    THEN X[CHOOSE i \in DOMAIN X : X[i].col = <<name>>].val
    ELSE Whole(0)

\* StandardScaler.transform: raises when X has not the width it was fitted on
scaler_raises(scaler, X) == Len(X) # scaler.n_features_in

\* the classifier fakes, predict(X)[0]
classifier_predict(id, X) ==
    CASE id = "always"    -> 1
      [] id = "never"     -> 0
      [] id = "rainy_avg" -> IF Gt(XGet(X, "rainfall_30d_avg"), Whole(50)) THEN 1 ELSE 0

\* the regressor fakes, predict(X)[0], in thousandths of a millimetre; a
\* fake may answer a negative amount or NaN, or raise
regressor_predict(id, X) ==
    CASE id = "negative" -> [k |-> "num", v |-> -5000]
      [] id = "nan"      -> NaN
      [] id = "raises"   -> [k |-> "raise"]
      [] id = "drizzle"  -> [k |-> "num", v |-> 108]
      [] id = "monthly_avg" ->
            LET a == XGet(X, "rainfall_30d_avg")
            IN  IF IsNum(a) THEN [k |-> "num", v |-> (a.v * 1000) \div Unit + 5] ELSE NaN
      [] id = "bimodal"  ->
            LET m == XGet(X, "month").v \div Unit
            IN  [k |-> "num", v |-> IF m \in {2, 3, 4, 6, 10} THEN 41111 + 1000 * m
                                    ELSE IF m = 12 THEN -20 ELSE 2505]

\* mutant: the regressor's answer is taken as it is
clamp_missing(y) == IF y.k = "num" THEN y.v ELSE 0

\* line 373: float(max(0, y)), in thousandths of a millimetre
clamp(y) == IF y.k = "num" /\ y.v > 0 THEN y.v ELSE 0

\* lines 376-379: the seasonal multiplier; the result is in 1/10000 mm
seasonal(month, amount) ==
    IF month \in {3, 4, 5, 10, 11} THEN amount * 15
    ELSE IF month \in {1, 2, 6, 7, 8, 9} THEN amount * 6
    ELSE amount * 10

\* round half to even of n / d, d > 0
round_div(n, d) ==
    LET q == n \div d
        r == n % d
    IN  IF 2 * r < d THEN q
        ELSE IF 2 * r > d THEN q + 1
        ELSE IF q % 2 = 0 THEN q ELSE q + 1

\* round(x, 2) of an amount in 1/10000 mm: hundredths of a millimetre
round2(x) == round_div(x, 100)

month_names ==
    << "January", "February", "March", "April", "May", "June",
       "July", "August", "September", "October", "November", "December" >>

\* mutant: the multiplier is chosen by the position of the pass in the loop
forecast_step_seasonal_by_position(aez, current_month, i, climate_data, aez_encoded, aez_onehot) ==
    LET month == month_of(current_month, i)
        X     == feature_row(climate_data, month, aez_encoded, aez_onehot)
        y     == regressor_predict(DictGet(models, "rainfall_regressor"), X)
        rainfall_amount == seasonal(i + 1, clamp(y))
    IN  [month  |-> month,
         raises |-> scaler_raises(DictGet(scalers, "rainfall"), X) \/ y.k = "raise",
         amount |-> rainfall_amount,
         entry  |-> [month_name |-> month_names[month],
                     will_rain  |-> classifier_predict(DictGet(models, "rainfall_classifier"), X) = 1,
                     amount_mm  |-> round2(rainfall_amount)]]

\* what one pass of the loop computes: the month, whether a call raised,
\* the entry written and the unrounded amount
forecast_step(aez, current_month, i, climate_data, aez_encoded, aez_onehot) ==
    LET month == month_of(current_month, i)
        X     == feature_row(climate_data, month, aez_encoded, aez_onehot)
        y     == regressor_predict(DictGet(models, "rainfall_regressor"), X)
        rainfall_amount == seasonal(month, clamp(y))
    IN  [month  |-> month,
         raises |-> scaler_raises(DictGet(scalers, "rainfall"), X) \/ y.k = "raise",
         amount |-> rainfall_amount,
         entry  |-> [month_name |-> month_names[month],
                     will_rain  |-> classifier_predict(DictGet(models, "rainfall_classifier"), X) = 1,
                     amount_mm  |-> round2(rainfall_amount)]]

\* mutant: every pass of the loop overwrites next_7days_total
RECURSIVE forecast_loop_every_pass(_, _, _, _, _, _, _)
forecast_loop_every_pass(i, acc, aez, current_month, climate_data, aez_encoded, aez_onehot) ==
    IF i = 12 THEN acc
    ELSE LET step == forecast_step(aez, current_month, i, climate_data, aez_encoded, aez_onehot)
         IN  IF step.raises THEN [acc EXCEPT !.raised = TRUE]
             ELSE forecast_loop_every_pass(i + 1,
                    [monthly_predictions |-> DictSet(acc.monthly_predictions, <<"month", step.month>>, step.entry),
                     next_7days_total    |-> step.amount * 7,
                     raised              |-> FALSE],
                    aez, current_month, climate_data, aez_encoded, aez_onehot)

\* lines 311-393: the loop over range(12) from pass i on
RECURSIVE forecast_loop(_, _, _, _, _, _, _)
forecast_loop(i, acc, aez, current_month, climate_data, aez_encoded, aez_onehot) ==
    IF i = 12 THEN acc
    ELSE LET step == forecast_step(aez, current_month, i, climate_data, aez_encoded, aez_onehot)
         IN  IF step.raises THEN [acc EXCEPT !.raised = TRUE]
             ELSE forecast_loop(i + 1,
                    [monthly_predictions |-> DictSet(acc.monthly_predictions, <<"month", step.month>>, step.entry),
                     next_7days_total    |-> IF i = 0 THEN step.amount * 7 ELSE acc.next_7days_total,
                     raised              |-> FALSE],
                    aez, current_month, climate_data, aez_encoded, aez_onehot)

\* predict_rainfall: the returned dict, or the exception re-raised at line 407;
\* next_7days_total is round(rainfall_amount * 7 / 30, 2) in hundredths
predict_rainfall(aez, current_month) ==
    LET climate_data == get_aez_climate_data(weather_by_aez, aez)
        done == forecast_loop(0, [monthly_predictions |-> EmptyDict, next_7days_total |-> 0, raised |-> FALSE],
                              aez, current_month, climate_data, aez_encoded_of(aez), aez_onehot_of(aez))
    IN  IF done.raised THEN [k |-> "raise"]
        ELSE [k |-> "value",
              val |-> [aez                 |-> aez,
                       monthly_forecast    |-> done.monthly_predictions,
                       next_7days_total    |-> round_div(done.next_7days_total, 3000),
                       avg_annual_rainfall |-> climate_data.avg_rainfall,
                       avg_temperature     |-> climate_data.avg_temperature]]

\* current_month is None or IntArg(m); None is replaced by datetime.now().month
\* (lines 292-293), any month of the year
IntArg(n) == [k |-> "int", v |-> n]

PredictRainfall(aez, current_month, now) ==
    /\ Idle
    /\ LET month == IF current_month = None THEN now ELSE current_month.v
       IN  /\ call' = [op |-> "predict_rainfall", aez |-> aez, current_month |-> month]
           /\ ret' = predict_rainfall(aez, month)
    /\ answered' = Tick(answered)
    /\ ReadOnly

-----------------------------------------------------------------------------
(* Planting-Time Selector: predict_planting_times *)

\* int(key.split('_')[1]) of a key "month_<n>"
month_num_of(key) == key[2]

\* lines 414-421: months_data in the order of monthly_forecast.items()
months_data_of(monthly_forecast) ==
    [i \in DOMAIN monthly_forecast.items |->
        [month    |-> month_num_of(monthly_forecast.items[i].key),
         name     |-> monthly_forecast.items[i].val.month_name,
         rainfall |-> monthly_forecast.items[i].val.amount_mm]]

\* line 423: list.sort(key=month), a stable insertion sort
RECURSIVE sort_by_month(_)
sort_by_month(xs) ==
    IF xs = <<>> THEN <<>>
    ELSE LET n      == Len(xs)
             sorted == sort_by_month(SubSeq(xs, 1, n - 1))
             before == SelectSeq(sorted, LAMBDA m : m.month <= xs[n].month)
             after  == SelectSeq(sorted, LAMBDA m : m.month > xs[n].month)
         IN  before \o <<xs[n]>> \o after

\* a label is a tuple of strings: <<name, " (onset of rains)">> for an onset
\* month, a one-element tuple for a known season
onset_label(name) == <<name, " (onset of rains)">>

LongRains == <<"March-April (Long rains)">>

ShortRains == <<"October-November (Short rains)">>

\* mutant: 50 mm is enough
is_onset_at_fifty(current, prev) ==
    current.rainfall > prev.rainfall + 2000 /\ current.rainfall >= 5000

\* line 429, amounts in hundredths of a millimetre
is_onset(current, prev) ==
    current.rainfall > prev.rainfall + 2000 /\ current.rainfall > 5000

\* lines 425-430
planting_months_of(months_data) ==
    LET n     == Len(months_data)
        hit   == [i \in 1..n |-> is_onset(months_data[i], months_data[IF i > 1 THEN i - 1 ELSE n])]
        RECURSIVE collect(_)
        collect(i) == IF i > n THEN <<>>
                      ELSE (IF hit[i] THEN <<onset_label(months_data[i].name)>> ELSE <<>>) \o collect(i + 1)
    IN  collect(1)

\* next((m['rainfall'] for m in months_data if m['month'] == month), 0)
rain_of(months_data, month) ==
    IF \E i \in DOMAIN months_data : months_data[i].month = month
    THEN months_data[CHOOSE i \in DOMAIN months_data :
                        /\ months_data[i].month = month
                        /\ \A j \in 1..(i - 1) : months_data[j].month # month].rainfall
    ELSE 0

\* lines 432-439
known_seasons_of(months_data) ==
    (IF rain_of(months_data, 3) > 3000 THEN <<LongRains>> ELSE <<>>)
    \o (IF rain_of(months_data, 10) > 3000 THEN <<ShortRains>> ELSE <<>>)

\* set(planting_months + known_seasons)
candidates_of(rainfall_predictions) ==
    LET months_data == sort_by_month(months_data_of(rainfall_predictions.monthly_forecast))
        all         == planting_months_of(months_data) \o known_seasons_of(months_data)
    IN  {all[i] : i \in DOMAIN all}

\* list(S)[:n]: a set of strings is listed in an order that the hash seed of
\* the process decides, so every arrangement is a possible outcome
listed_prefix(S, n) ==
    LET k == IF Cardinality(S) < n THEN Cardinality(S) ELSE n
    IN  {xs \in [1..k -> S] : \A i, j \in 1..k : xs[i] = xs[j] => i = j}

\* mutant: no fallback when nothing is found
planting_result_no_fallback(candidates) ==
    listed_prefix(candidates, 3)

\* mutant: the fallback lists the short rains first
planting_result_short_rains_first(candidates) ==
    IF candidates = {} THEN { <<ShortRains, LongRains>> }
    ELSE listed_prefix(candidates, 3)

\* lines 441-446: the lists the call may return
planting_result(candidates) ==
    IF candidates = {} THEN { <<LongRains, ShortRains>> }
    ELSE listed_prefix(candidates, 3)

predict_planting_times(rainfall_predictions) ==
    planting_result(candidates_of(rainfall_predictions))

PredictPlantingTimes(rainfall_predictions) ==
    /\ Idle
    /\ call' = [op |-> "predict_planting_times", rainfall_predictions |-> rainfall_predictions]
    /\ \E result \in predict_planting_times(rainfall_predictions) :
         ret' = [k |-> "value", val |-> result]
    /\ answered' = Tick(answered)
    /\ ReadOnly

-----------------------------------------------------------------------------
(* Crop Recommender: _get_crop_value and recommend_crops *)

\* A crop table is [cols, rows]; a row is a function from the column names
\* to cells; a cell is a float, NaN (an empty cell) or Str(s), s a string
\* (a sequence of characters).
Str(s) == [k |-> "str", s |-> s]

_get_crop_value(columns, crop_row, standard_name, default) ==
    LET actual_col == DictGetOr(columns, standard_name, "(none)")
    IN  IF actual_col # "(none)" /\ actual_col \in DOMAIN crop_row /\ ~isna(crop_row[actual_col])
        THEN crop_row[actual_col]
        ELSE default

Abs(n) == IF n < 0 THEN 0 - n ELSE n

\* mutant: the width is taken as it is
range_of_unguarded(lo, hi) == hi.v - lo.v

\* tmax - tmin if tmax > tmin else 1
range_of(lo, hi) == IF hi.v > lo.v THEN hi.v - lo.v ELSE Unit

\* max(0, 1 - abs(value - (opmn + opmx) / 2) / range), as the fraction n/d
dist_score(value, opmn, opmx, range) ==
    LET num == Abs(2 * value.v - (opmn.v + opmx.v))
        den == 2 * range
    IN  IF num >= den THEN [n |-> 0, d |-> 1] ELSE [n |-> den - num, d |-> den]

\* round(x, 3) in thousandths, of x = whole/1000 + (n/d)/1000: to the
\* nearest, a tie to the even neighbour.  The score is computed exactly here;
\* the doubles of the source differ from it below the sixteenth digit.
round3(whole, n, d) ==
    LET w == whole + n \div d
        r == n % d
    IN  IF 2 * r > d THEN w + 1
        ELSE IF 2 * r < d THEN w
        ELSE IF w % 2 = 0 THEN w ELSE w + 1

\* mutant: the four terms weigh 0.25 each
suitability_score_equal_weights(temp_optimal, rain_optimal, temp_dist_score, rain_dist_score) ==
    LET base  == (IF temp_optimal THEN 250 ELSE 175) + (IF rain_optimal THEN 250 ELSE 175)
        t250  == 250 * temp_dist_score.n
        r250  == 250 * rain_dist_score.n
        whole == base + t250 \div temp_dist_score.d + r250 \div rain_dist_score.d
        n     == (t250 % temp_dist_score.d) * rain_dist_score.d
                 + (r250 % rain_dist_score.d) * temp_dist_score.d
        d     == temp_dist_score.d * rain_dist_score.d
    IN  IF whole >= 1000 THEN 1000
        ELSE IF whole < 0 THEN 0
        ELSE round3(whole, n, d)

\* lines 486-501: round(float(max(0, min(1, suitability))), 3), in thousandths
suitability_score(temp_optimal, rain_optimal, temp_dist_score, rain_dist_score) ==
    LET base  == (IF temp_optimal THEN 300 ELSE 210) + (IF rain_optimal THEN 300 ELSE 210)
        t200  == 200 * temp_dist_score.n
        r200  == 200 * rain_dist_score.n
        whole == base + t200 \div temp_dist_score.d + r200 \div rain_dist_score.d
        n     == (t200 % temp_dist_score.d) * rain_dist_score.d
                 + (r200 % rain_dist_score.d) * temp_dist_score.d
        d     == temp_dist_score.d * rain_dist_score.d
    IN  IF whole >= 1000 THEN 1000
        ELSE IF whole < 0 THEN 0
        ELSE round3(whole, n, d)

\* lines 460-470: the values of one row, defaults filled in
crop_values(columns, crop) ==
    LET tmin == _get_crop_value(columns, crop, "tmin", Whole(0))
        tmax == _get_crop_value(columns, crop, "tmax", Whole(50))
        rmin == _get_crop_value(columns, crop, "rmin", Whole(0))
        rmax == _get_crop_value(columns, crop, "rmax", Whole(5000))
    IN  [tmin    |-> tmin,
         tmax    |-> tmax,
         topmn   |-> _get_crop_value(columns, crop, "topmn", tmin),
         topmx   |-> _get_crop_value(columns, crop, "topmx", tmax),
         rmin    |-> rmin,
         rmax    |-> rmax,
         ropmn   |-> _get_crop_value(columns, crop, "ropmn", rmin),
         ropmx   |-> _get_crop_value(columns, crop, "ropmx", rmax),
         comname |-> _get_crop_value(columns, crop, "comname", Str(<<"U", "n", "k", "n", "o", "w", "n">>)),
         sciname |-> _get_crop_value(columns, crop, "scientificname", Str(<<"N", "/", "A">>))]

\* mutant: the rainfall range is not looked at
crop_accepted_temperature_only(c, temperature, rainfall) ==
    Le(c.tmin, temperature) /\ Le(temperature, c.tmax)

\* line 479: the row is kept
crop_accepted(c, temperature, rainfall) ==
    /\ Le(c.tmin, temperature) /\ Le(temperature, c.tmax)
    /\ Le(c.rmin, rainfall) /\ Le(rainfall, c.rmax)

\* lines 473-514: the entry appended for a row that is kept
crop_entry(c, temperature, rainfall) ==
    LET temp_optimal == Le(c.topmn, temperature) /\ Le(temperature, c.topmx)
        rain_optimal == Le(c.ropmn, rainfall) /\ Le(rainfall, c.ropmx)
        temp_range   == range_of(c.tmin, c.tmax)
        rain_range   == range_of(c.rmin, c.rmax)
    IN  [crop_name         |-> c.comname,
         scientific_name   |-> c.sciname,
         suitability_score |-> suitability_score(temp_optimal, rain_optimal,
                                   dist_score(temperature, c.topmn, c.topmx, temp_range),
                                   dist_score(rainfall, c.ropmn, c.ropmx, rain_range)),
         temperature_range |-> [min |-> c.tmin, max |-> c.tmax,
                                optimal_min |-> c.topmn, optimal_max |-> c.topmx],
         rainfall_range    |-> [min |-> c.rmin, max |-> c.rmax,
                                optimal_min |-> c.ropmn, optimal_max |-> c.ropmx]]

\* lines 458-514: the loop over crop_database.iterrows()
RECURSIVE recommendations_of(_, _, _, _)
recommendations_of(columns, rows, temperature, rainfall) ==
    IF rows = <<>> THEN <<>>
    ELSE LET c == crop_values(columns, Head(rows))
         IN  (IF crop_accepted(c, temperature, rainfall)
              THEN <<crop_entry(c, temperature, rainfall)>> ELSE <<>>)
             \o recommendations_of(columns, Tail(rows), temperature, rainfall)

\* mutant: entries of equal score come out in reverse
sort_by_score_reversing_ties(xs) ==
    LET RECURSIVE srt(_)
        srt(n) == IF n = 0 THEN <<>>
                  ELSE LET sorted == srt(n - 1)
                       IN  SelectSeq(sorted, LAMBDA e : e.suitability_score > xs[n].suitability_score)
                           \o <<xs[n]>>
                           \o SelectSeq(sorted, LAMBDA e : e.suitability_score <= xs[n].suitability_score)
    IN  srt(Len(xs))

\* line 516: list.sort(key=suitability_score, reverse=True); the sort is
\* stable, reverse=True included
sort_by_score(xs) ==
    LET RECURSIVE srt(_)
        srt(n) == IF n = 0 THEN <<>>
                  ELSE LET sorted == srt(n - 1)
                       IN  SelectSeq(sorted, LAMBDA e : e.suitability_score >= xs[n].suitability_score)
                           \o <<xs[n]>>
                           \o SelectSeq(sorted, LAMBDA e : e.suitability_score < xs[n].suitability_score)
    IN  srt(Len(xs))

\* mutant: the list is returned whole
top_ten_uncut(xs) == xs

\* line 517: recommendations[:10]
top_ten(xs) == SubSeq(xs, 1, IF Len(xs) < 10 THEN Len(xs) ELSE 10)

\* mutant: a call made after another one was answered returns nothing
recommend_crops_stateful(aez, temperature, rainfall) ==
    [k |-> "value", val |-> IF answered = None THEN <<[crop_name |-> Str(<<"f", "i", "r", "s", "t">>)]>> ELSE <<>>]

recommend_crops(aez, temperature, rainfall) ==
    IF crop_database = None THEN [k |-> "raise"]
    ELSE LET climate_data == get_aez_climate_data(weather_by_aez, aez)
             t == IF temperature = None THEN climate_data.avg_temperature ELSE temperature
             r == IF rainfall = None THEN climate_data.avg_rainfall ELSE rainfall
         IN  [k |-> "value",
              val |-> top_ten(sort_by_score(recommendations_of(crop_columns, crop_database.rows, t, r)))]

\* the history records this call and its answer, or keeps what it holds
RecommendCrops(aez, temperature, rainfall) ==
    /\ Idle
    /\ call' = [op |-> "recommend_crops", aez |-> aez,
                temperature |-> temperature, rainfall |-> rainfall]
    /\ ret' = recommend_crops(aez, temperature, rainfall)
    /\ \/ answered' = Tick(answered)
       \/ answered = None /\ answered' = [call |-> call', ret |-> ret', later |-> 0]
    /\ ReadOnly

-----------------------------------------------------------------------------
(* Crop Info and Suitability: get_crop_info, calculate_crop_suitability *)

\* Series.str.lower() on one cell: NaN for a cell that is not a string
cell_lower(cell) == IF cell.k = "str" THEN Str(lower(cell.s)) ELSE NaN

\* re.compile(pat) raises: a group is opened and never closed
re_error(pat) ==
    \E i \in DOMAIN pat : pat[i] = "(" /\ \A j \in (i + 1)..Len(pat) : pat[j] # ")"

\* re.search(pat, text) for a pattern of letters and dots: Series.str.contains
\* takes its argument as a regular expression (regex=True is the default),
\* in which a dot stands for any character
re_search(pat, text) ==
    \E off \in 0..(Len(text) - Len(pat)) :
        \A i \in 1..Len(pat) : pat[i] = "." \/ text[off + i] = pat[i]

\* lines 531-533: the rows whose lowered name equals the lowered crop_name
exact_rows(table, comname_col, crop_name) ==
    {i \in DOMAIN table.rows :
        cell_lower(table.rows[i][comname_col]) = Str(lower(crop_name))}

\* lines 537-539: str.contains(crop_name.lower(), na=False)
partial_rows(table, comname_col, crop_name) ==
    {i \in DOMAIN table.rows :
        /\ table.rows[i][comname_col].k = "str"
        /\ re_search(lower(crop_name), lower(table.rows[i][comname_col].s))}

Min(S) == CHOOSE x \in S : \A y \in S : x <= y

\* int(x) of a non-negative float
int_of(x) == F((x.v \div Unit) * Unit)

\* lines 546-563: the dict built from the row found
crop_info_of(columns, crop, crop_name) ==
    LET gmin == _get_crop_value(columns, crop, "gmin", Whole(60))
        gmax == _get_crop_value(columns, crop, "gmax", Whole(120))
    IN  [crop_name           |-> _get_crop_value(columns, crop, "comname", Str(crop_name)),
         scientific_name     |-> _get_crop_value(columns, crop, "scientificname", Str(<<"N", "/", "A">>)),
         temp_min            |-> _get_crop_value(columns, crop, "tmin", Whole(10)),
         temp_max            |-> _get_crop_value(columns, crop, "tmax", Whole(40)),
         temp_opt_min        |-> _get_crop_value(columns, crop, "topmn", Whole(15)),
         temp_opt_max        |-> _get_crop_value(columns, crop, "topmx", Whole(35)),
         rainfall_min        |-> _get_crop_value(columns, crop, "rmin", Whole(200)),
         rainfall_max        |-> _get_crop_value(columns, crop, "rmax", Whole(3000)),
         rainfall_opt_min    |-> _get_crop_value(columns, crop, "ropmn", Whole(400)),
         rainfall_opt_max    |-> _get_crop_value(columns, crop, "ropmx", Whole(2000)),
         ph_min              |-> _get_crop_value(columns, crop, "phopmn", Lit(55)),
         ph_max              |-> _get_crop_value(columns, crop, "phopmx", Lit(75)),
         growth_duration_min |-> int_of(gmin),
         growth_duration_max |-> int_of(gmax),
         growth_duration     |-> F(((gmin.v + gmax.v) \div (2 * Unit)) * Unit)]

\* float(...) or int(...) of a cell that holds text raises ValueError
conversion_raises(columns, crop) ==
    \E std \in {"tmin", "tmax", "topmn", "topmx", "rmin", "rmax", "ropmn", "ropmx",
                "phopmn", "phopmx", "gmin", "gmax"} :
        _get_crop_value(columns, crop, std, Whole(0)).k = "str"

\* lines 525-567; every exception is caught and turned into None
get_crop_info(crop_name) ==
    LET comname_col == DictGetOr(crop_columns, "comname", "comname")
    IN  IF crop_database = None THEN None
        ELSE IF comname_col \notin crop_database.cols THEN None
        ELSE LET exact == exact_rows(crop_database, comname_col, crop_name)
             IN  IF exact = {} /\ re_error(lower(crop_name)) THEN None
                 ELSE LET found == IF exact # {} THEN exact
                                   ELSE partial_rows(crop_database, comname_col, crop_name)
                      IN  IF found = {} THEN None
                          ELSE IF conversion_raises(crop_columns, crop_database.rows[Min(found)])
                          THEN None
                          ELSE crop_info_of(crop_columns, crop_database.rows[Min(found)], crop_name)

CropNotFound == [score |-> 0, factors |-> Dict(<<[key |-> "error", val |-> "Crop not found"]>>)]

\* mutant: the absolute range is tested before the optimal band
factor_of_absolute_first(value, opt_min, opt_max, abs_min, abs_max) ==
    IF Le(abs_min, value) /\ Le(value, abs_max) THEN [label |-> "Suitable", score |-> 700]
    ELSE IF Le(opt_min, value) /\ Le(value, opt_max) THEN [label |-> "Optimal", score |-> 1000]
    ELSE [label |-> "Not suitable", score |-> 300]

\* lines 588-596 and 599-607: the label and the score of one factor, the
\* score in thousandths
factor_of(value, opt_min, opt_max, abs_min, abs_max) ==
    IF Le(opt_min, value) /\ Le(value, opt_max) THEN [label |-> "Optimal", score |-> 1000]
    ELSE IF Le(abs_min, value) /\ Le(value, abs_max) THEN [label |-> "Suitable", score |-> 700]
    ELSE [label |-> "Not suitable", score |-> 300]

\* lines 569-616; score is round(sum(scores) / len(scores), 3) in thousandths
calculate_crop_suitability(crop_name, aez) ==
    LET crop_info == get_crop_info(crop_name)
    IN  IF crop_info = None THEN CropNotFound
        ELSE LET climate_data == get_aez_climate_data(weather_by_aez, aez)
                 t == factor_of(climate_data.avg_temperature, crop_info.temp_opt_min,
                                crop_info.temp_opt_max, crop_info.temp_min, crop_info.temp_max)
                 r == factor_of(climate_data.avg_rainfall, crop_info.rainfall_opt_min,
                                crop_info.rainfall_opt_max, crop_info.rainfall_min,
                                crop_info.rainfall_max)
             IN  [score   |-> (t.score + r.score) \div 2,
                  factors |-> Dict(<< [key |-> "temperature", val |-> t.label],
                                      [key |-> "rainfall", val |-> r.label],
                                      [key |-> "aez", val |-> aez],
                                      [key |-> "climate_zone", val |-> "Matched to local conditions"] >>)]

GetCropInfo(crop_name) ==
    /\ Idle
    /\ call' = [op |-> "get_crop_info", crop_name |-> crop_name]
    /\ ret' = [k |-> "value", val |-> get_crop_info(crop_name)]
    /\ answered' = Tick(answered)
    /\ ReadOnly

CalculateCropSuitability(crop_name, aez) ==
    /\ Idle
    /\ call' = [op |-> "calculate_crop_suitability", crop_name |-> crop_name, aez |-> aez]
    /\ ret' = [k |-> "value", val |-> calculate_crop_suitability(crop_name, aez)]
    /\ answered' = Tick(answered)
    /\ ReadOnly

-----------------------------------------------------------------------------
(* get_best_planting_time_for_crop *)

BothSeasons == <<"March-April (Long rains) or October-November (Short rains)">>

\* mutant: a failed forecast is answered with the long rains
get_best_planting_time_for_crop_long_rains_on_error(crop_info, aez, now) ==
    LET rainfall_pred == predict_rainfall(aez, now)
    IN  IF rainfall_pred.k = "raise" THEN {LongRains}
        ELSE {planting_times[1] : planting_times \in predict_planting_times(rainfall_pred.val)}

\* lines 618-629: the answers the call may give; `now` is the month
\* predict_rainfall reads from the clock, and the first planting time depends
\* on the order predict_planting_times lists its set in
get_best_planting_time_for_crop(crop_info, aez, now) ==
    LET rainfall_pred == predict_rainfall(aez, now)
    IN  IF rainfall_pred.k = "raise" THEN {BothSeasons}
        ELSE {planting_times[1] : planting_times \in predict_planting_times(rainfall_pred.val)}

GetBestPlantingTimeForCrop(crop_info, aez, now) ==
    /\ Idle
    /\ call' = [op |-> "get_best_planting_time_for_crop", crop_info |-> crop_info, aez |-> aez,
                now |-> now]
    /\ \E best \in get_best_planting_time_for_crop(crop_info, aez, now) :
         ret' = [k |-> "value", val |-> best]
    /\ answered' = Tick(answered)
    /\ ReadOnly


-----------------------------------------------------------------------------
(* _compute_weather_by_aez applied to a table *)

\* most lines of the log after which the aggregator is still applied
MaxLogLines == 3

\* the method applied to a weather table by a caller other than load_models:
\* it reads self.weather_columns, logs as at load time and changes no
\* attribute of the object
ComputeWeatherByAez(weather_data) ==
    /\ Idle
    /\ Len(load_log) <= MaxLogLines
    /\ call' = [op |-> "_compute_weather_by_aez", weather_data |-> weather_data]
    /\ ret' = [k |-> "value", val |-> _compute_weather_by_aez(weather_columns, weather_data)]
    /\ load_log' = load_log \o aggregator_log(weather_columns, weather_data)
    /\ answered' = Tick(answered)
    /\ UNCHANGED <<app, refdata>>

-----------------------------------------------------------------------------
(* Bounded inputs *)

\* longest of the short AEZ strings enumerated over AezAlphabet
MaxAezLen == 2

Zone5 == <<"Z","o","n","e","5">>

\* the AEZ labels of the weather rows: a default zone name, the same name
\* in another case, and a label no default knows
WeatherLabels == {HighlandsHumid, lower(HighlandsHumid), Zone5}

WeatherRows ==
    [aez : WeatherLabels, yr : {2020, 2021}, p : {0, 3}, t : {20, 50}, h : {60}, s : {210}]

\* header sets: dated, daily without date, a year column without a date,
\* no AEZ column, no precipitation column
WeatherHeaders ==
    { {"AEZ", "date", "PRECTOTCORR", "T2M", "RH2M", "ALLSKY_SFC_SW_DWN"},
      {"aez", "precipitation", "temperature"},
      {"zone", "rain", "rainfall", "year", "temp"},
      {"date", "T2M", "PRECTOTCORR"},
      {"AEZ", "aez", "T2M"} }

DateHeaders == {"date", "DATE", "datetime", "time"}

\* a weather file whose rows `text` hold text in their temperature cell
WeatherFileText(cols, rows, date_ok, text) ==
    [cols |-> cols, rows |-> rows, date_ok |-> date_ok, text |-> text]

WeatherFile(cols, rows, date_ok) == WeatherFileText(cols, rows, date_ok, {})

AezAlphabet == {"a", "Z"}

ShortAez == UNION {[1..n -> AezAlphabet] : n \in 0..MaxAezLen}

NamedAez ==
    { HighlandsHumid, lower(HighlandsHumid),
      <<"H","I","G","H","L","A","N","D","S"," ","(","H","U","M","I","D",")">>,
      <<"H","i","g","h","l","a","n","d","s"," ","(","H","u","m","i","d",")"," ","z","o","n","e">>,
      <<"H","u","m","i","d">>, <<"L","o","w","l","a","n","d","s">>, <<"a","r","i","d">>,
      UpperMidlands, LowerMidlands, CoastalLowlands, AridLowlands,
      Zone5, lower(Zone5), <<"N","a","i","r","o","b","i">> }

AezInputs == NamedAez \cup ShortAez

\* artifacts that load: every file holds a fitted object
FittedArtifacts ==
    [f \in {load_order[i].file : i \in DOMAIN load_order} |-> "fitted"]

EmptyCropCsv == [cols |-> {"COMNAME"}, rows |-> <<>>]

ClimateDisk(w) ==
    [artifacts |-> FittedArtifacts, crop_csv |-> EmptyCropCsv, weather_csv |-> w, unreadable |-> 0]


\* artifacts of the rainfall forecaster
ClassifierIds == {"always", "never", "rainy_avg"}

RegressorIds == {"negative", "nan", "raises", "drizzle", "monthly_avg", "bimodal"}

\* the label sets the AEZ encoders were fitted on
EncoderClasses == { <<AridLowlands, HighlandsHumid>>, <<Zone5>> }

\* feature column lists: that of the source's base_features with one-hot
\* columns, and a short one with a column the code does not compute
FeatureColumnLists ==
    { DictKeys(base_features(generic_default, 1, 0))
        \o << <<"aez_", HighlandsHumid>>, <<"aez_", AridLowlands>> >>,
      << <<"month">>, <<"rainfall_30d_avg">>, <<"aez_", Zone5>>, <<"soil_moisture">> >> }

RainfallArtifacts(clf, reg, classes, columns, width) ==
    [f \in {load_order[i].file : i \in DOMAIN load_order} |->
        CASE f = "rainfall_classifier"      -> clf
          [] f = "rainfall_regressor"       -> reg
          [] f = "scaler_rainfall"          -> [n_features_in |-> width]
          [] f = "aez_label_encoder"        -> [classes |-> classes]
          [] f = "aez_onehot_encoder"       -> [categories |-> classes]
          [] f = "rainfall_feature_columns" -> columns
          [] OTHER -> "fitted"]

\* a dated file with two years of Highlands rain, and a file without an AEZ
\* column, whose aggregation fails
ForecastWeatherFiles ==
    { WeatherFile({"AEZ", "date", "PRECTOTCORR", "T2M", "RH2M", "ALLSKY_SFC_SW_DWN"},
                  << [aez |-> HighlandsHumid, yr |-> 2020, p |-> 900, t |-> 20, h |-> 60, s |-> 210],
                     [aez |-> HighlandsHumid, yr |-> 2021, p |-> 700, t |-> 18, h |-> 60, s |-> 210] >>,
                  TRUE),
      WeatherFile({"date", "T2M", "PRECTOTCORR"}, <<>>, TRUE) }

ForecastAez == {HighlandsHumid, AridLowlands, <<"N","a","i","r","o","b","i">>}

CurrentMonths == {None} \cup {IntArg(m) : m \in 1..12}


\* most months of a drawn forecast that are not dry
MaxWetMonths == 4

\* amount_mm of a month that is not dry, and of a dry month, in hundredths
WetAmounts == {4500, 7500}

DryAmount == {1000}

\* the forecast whose months W carry the amounts `wet` and whose other
\* months are dry, as predict_rainfall lays it out from current month 1
ForecastOf(W, wet) ==
    [monthly_forecast |->
        Dict([m \in 1..12 |->
                [key |-> <<"month", m>>,
                 val |-> [month_name |-> month_names[m],
                          will_rain  |-> m \in W,
                          amount_mm  |-> IF m \in W THEN wet[m] ELSE CHOOSE a \in DryAmount : TRUE]]])]


\* most rows of a drawn crop table, and most of its rows that are of the
\* second kind
MaxCropRows == 12

MaxOddRows == 1

CropHeaders == {"COMNAME", "TMIN", "TMAX", "TOPMN", "TOPMX", "RMIN", "RMAX"}

\* one name per row, so that an entry tells the row it came from
CropNames ==
    << <<"M", "a", "i", "z", "e">>,
       <<"B", "e", "a", "n", "s">>,
       <<"R", "i", "c", "e">>,
       <<"T", "e", "f", "f">>,
       <<"Y", "a", "m">>,
       <<"T", "a", "r", "o">>,
       <<"K", "a", "l", "e">>,
       <<"P", "e", "a", "s">>,
       <<"O", "a", "t", "s">>,
       <<"R", "y", "e">>,
       <<"O", "k", "r", "a">>,
       <<"L", "e", "e", "k">>,
       <<"F", "i", "g">>,
       <<"M", "i", "r", "a", "a">> >>

\* a row of the first kind: every cell filled
CropRowA(i) ==
    [c \in CropHeaders |->
        CASE c = "COMNAME" -> Str(CropNames[i])
          [] c = "TMIN"    -> Whole(10)
          [] c = "TMAX"    -> Whole(40)
          [] c = "TOPMN"   -> Whole(20)
          [] c = "TOPMX"   -> Whole(30)
          [] c = "RMIN"    -> Whole(500)
          [] c = "RMAX"    -> Whole(1500)]

\* a row of the second kind: a narrower crop with two empty cells
CropRowB(i) ==
    [c \in CropHeaders |->
        CASE c = "COMNAME" -> Str(CropNames[i])
          [] c = "TMIN"    -> Whole(15)
          [] c = "TMAX"    -> Whole(35)
          [] c = "TOPMN"   -> NaN
          [] c = "TOPMX"   -> Whole(25)
          [] c = "RMIN"    -> Whole(600)
          [] c = "RMAX"    -> NaN]

\* the table of n rows whose rows `odd` are of the second kind
CropTable(n, odd) ==
    [cols |-> CropHeaders,
     rows |-> [i \in 1..n |-> IF i \in odd THEN CropRowB(i) ELSE CropRowA(i)]]

CropDisk(table) ==
    [artifacts   |-> RainfallArtifacts("rainy_avg", "bimodal", <<AridLowlands, HighlandsHumid>>,
                                       DictKeys(base_features(generic_default, 1, 0)),
                                       Len(DictKeys(base_features(generic_default, 1, 0)))),
     crop_csv    |-> table,
     weather_csv |-> WeatherFile({"AEZ", "date", "PRECTOTCORR", "T2M"},
                        << [aez |-> HighlandsHumid, yr |-> 2020, p |-> 900, t |-> 20, h |-> 60, s |-> 210],
                           [aez |-> HighlandsHumid, yr |-> 2021, p |-> 700, t |-> 18, h |-> 60, s |-> 210] >>,
                        TRUE),
     unreadable  |-> 0]

\* (aez, temperature, rainfall) of the recommend_crops requests
CropRequests ==
    { <<HighlandsHumid, None, None>>,
      <<Zone5, Whole(18), Whole(800)>>,
      <<Zone5, Whole(22), None>>,
      <<Zone5, Whole(38), Whole(800)>>,
      <<Zone5, Whole(22), Whole(550)>> }


\* most rows of a crop table drawn for the name lookup, and longest crop
\* name asked for
MaxInfoRows == 2

MaxNameLen == 2

\* header sets: one with the name column, one without
InfoHeaders == { {"COMNAME", "TMIN", "TMAX", "RMIN", "RMAX"}, {"crop", "TMIN", "TMAX", "RMIN", "RMAX"} }

\* name cell and TMIN cell of a row: two names, a name that holds both, an
\* empty name, text in TMIN
InfoRowKinds ==
    { [name |-> Str(<<"M", "a">>), tmin |-> Whole(10)],
      [name |-> Str(<<"a", "m">>), tmin |-> Whole(21)],
      [name |-> Str(<<"M", "a", "m">>), tmin |-> Whole(12)],
      [name |-> NaN,               tmin |-> Whole(10)],
      [name |-> Str(<<"M", "a">>), tmin |-> Str(<<"l", "o", "w">>)] }

InfoRow(cols, kind) ==
    [c \in cols |->
        CASE c \in {"COMNAME", "crop"} -> kind.name
          [] c = "TMIN" -> kind.tmin
          [] c = "TMAX" -> Whole(40)
          [] c = "RMIN" -> Whole(500)
          [] c = "RMAX" -> Whole(1500)]

InfoTable(cols, kinds) == [cols |-> cols, rows |-> [i \in DOMAIN kinds |-> InfoRow(cols, kinds[i])]]

\* letters of two cases, the dot and the opening parenthesis
NameAlphabet == {"M", "a", "m", ".", "("}

CropNameInputs == UNION {[1..n -> NameAlphabet] : n \in 0..MaxNameLen}


\* headers a crop file and a weather file may carry: candidates of several
\* ranks for some canonical fields, and names that are no candidate
CropHeaderPool == {"COMNAME", "comname", "crop_name", "tmin", "temp_min", "TMAX", "soil"}

WeatherHeaderPool == {"AEZ", "zone", "rainfall", "rain", "PRECTOTCORR", "temp", "station"}


\* weather rows of two zones for the aggregation of mixed files
AggregationRows ==
    [aez : {HighlandsHumid, Zone5}, yr : {2020, 2021}, p : {0, 3}, t : {20}, h : {60}, s : {210}]


\* amounts at and next to the thresholds 30, 50 and previous + 20, in
\* hundredths of a millimetre
OnsetAmounts == {1000, 3000, 3001, 5000, 5001, 7500}

\* the months whose amount is drawn; the others carry 10 mm
OnsetMonths == {12, 1, 3, 10}

\* the months a forecast may start at
OnsetStarts == {1, 7, 12}

\* the forecast of the amounts `amount` (a function of the month) as
\* predict_rainfall lays it out from the month `start` on
ForecastFrom(amount, start) ==
    [monthly_forecast |->
        Dict([i \in 1..12 |->
                LET m == month_of(start, i - 1)
                IN  [key |-> <<"month", m>>,
                     val |-> [month_name |-> month_names[m],
                              will_rain  |-> amount[m] > 1000,
                              amount_mm  |-> amount[m]]]])]


\* most rows of a crop table drawn for the scoring
MaxScoredRows == 2

ScoredHeaders == {"COMNAME", "TMIN", "TMAX", "TOPMN", "TOPMX", "RMIN", "RMAX", "ROPMN", "ROPMX"}

\* a row of a crop table with every trait column
ScoredRow(name, tmin, tmax, topmn, topmx, rmin, rmax, ropmn, ropmx) ==
    [c \in ScoredHeaders |->
        CASE c = "COMNAME" -> name
          [] c = "TMIN"    -> tmin
          [] c = "TMAX"    -> tmax
          [] c = "TOPMN"   -> topmn
          [] c = "TOPMX"   -> topmx
          [] c = "RMIN"    -> rmin
          [] c = "RMAX"    -> rmax
          [] c = "ROPMN"   -> ropmn
          [] c = "ROPMX"   -> ropmx]

\* the rows tables are drawn from: a crop with nested bands, a crop of
\* zero-width ranges, a crop whose optimal bands lie outside its absolute
\* ranges, a crop with no trait value, and a second crop of the first name
ScoredRows ==
    { ScoredRow(Str(CropNames[1]), Whole(10), Whole(40), Whole(20), Whole(30),
                Whole(200), Whole(2000), Whole(800), Whole(1500)),
      ScoredRow(Str(CropNames[4]), Whole(25), Whole(25), Whole(25), Whole(25),
                Whole(1000), Whole(1000), Whole(1000), Whole(1000)),
      ScoredRow(Str(CropNames[5]), Whole(20), Whole(30), Whole(32), Whole(35),
                Whole(300), Whole(1600), Whole(1700), Whole(1900)),
      ScoredRow(Str(CropNames[10]), NaN, NaN, NaN, NaN, NaN, NaN, NaN, NaN),
      ScoredRow(Str(CropNames[1]), Whole(27), Whole(35), Whole(28), Whole(32),
                Whole(200), Whole(2000), Whole(800), Whole(1500)) }

ScoredTables ==
    {[cols |-> ScoredHeaders, rows |-> rows] :
        rows \in UNION {[1..n -> ScoredRows] : n \in 0..MaxScoredRows}}

\* the weather file gives Zone5 a summary of 8 degrees and 900 mm; the other
\* zones are answered from the default table
ScoredDisk(table) ==
    [CropDisk(table) EXCEPT
        !.weather_csv = WeatherFile({"AEZ", "date", "PRECTOTCORR", "T2M"},
                            << [aez |-> Zone5, yr |-> 2020, p |-> 900, t |-> 8, h |-> 60, s |-> 210] >>,
                            TRUE)]

ScoredAez ==
    {HighlandsHumid, UpperMidlands, LowerMidlands, CoastalLowlands, AridLowlands,
     Zone5, <<"N","a","i","r","o","b","i">>}

\* (aez, temperature, rainfall) of the scoring requests
ScoredRequests ==
    {<<aez, None, None>> : aez \in ScoredAez}
    \cup {<<Zone5, Whole(10), Whole(200)>>, <<Zone5, Whole(25), Whole(1000)>>,
          <<Zone5, Whole(30), Whole(1700)>>, <<Zone5, Whole(35), None>>,
          <<Zone5, Whole(22), Whole(400)>>}

ScoredNames == {CropNames[1], lower(CropNames[1]), CropNames[4], CropNames[5], CropNames[10], CropNames[3]}


\* most rows of a weather table the aggregator is applied to
MaxTotalsRows == 2

\* rows of two zones, two years and two daily amounts
TotalsRows ==
    [aez : {HighlandsHumid, Zone5}, yr : {2020, 2021}, p : {1, 3}, t : {20}, h : {60}, s : {210}]

-----------------------------------------------------------------------------
(* Specifications *)

\* Climate Aggregator and Climate Lookup over every weather file of the bounds
StartupClimate ==
    /\ app = "created"
    /\ \E cols \in WeatherHeaders, n \in 0..MaxWeatherRows, date_ok \in BOOLEAN :
         \E rows \in [1..n -> WeatherRows] :
            /\ date_ok \/ cols \cap DateHeaders # {}
            /\ startup_event(ClimateDisk(WeatherFile(cols, rows, date_ok)))

LookupClimate == Idle /\ \E aez \in AezInputs : GetAezClimateData(aez)

NextClimate == StartupClimate \/ LookupClimate \/ Return

SpecClimate == Init /\ [][NextClimate]_vars


\* Rainfall Forecaster over every fake predictor, encoder and column list
StartupForecast ==
    /\ app = "created"
    /\ \E clf \in ClassifierIds, reg \in RegressorIds, classes \in EncoderClasses,
          columns \in FeatureColumnLists, fits \in BOOLEAN, w \in ForecastWeatherFiles :
         startup_event([artifacts   |-> RainfallArtifacts(clf, reg, classes, columns,
                                            IF fits THEN Len(columns) ELSE Len(columns) + 1),
                        crop_csv    |-> EmptyCropCsv,
                        weather_csv |-> w,
                        unreadable  |-> 0])

RequestForecast ==
    /\ Idle
    /\ \E aez \in ForecastAez, current_month \in CurrentMonths :
         \E now \in IF current_month = None THEN 1..12 ELSE {current_month.v} :
            PredictRainfall(aez, current_month, now)

NextForecast == StartupForecast \/ RequestForecast \/ Return

SpecForecast == Init /\ [][NextForecast]_vars


\* Planting-Time Selector over every forecast of the bounds
StartupFixed ==
    /\ app = "created"
    /\ startup_event(ClimateDisk(WeatherFile({"date", "T2M", "PRECTOTCORR"}, <<>>, TRUE)))

SelectPlanting ==
    /\ Idle
    /\ \E W \in SUBSET (1..12) :
         /\ Cardinality(W) <= MaxWetMonths
         /\ \E wet \in [W -> WetAmounts] : PredictPlantingTimes(ForecastOf(W, wet))

NextPlanting == StartupFixed \/ SelectPlanting \/ Return

SpecPlanting == Init /\ [][NextPlanting]_vars



\* Crop Recommender over every crop table of the bounds, with the other
\* requests of the service in between
StartupCrops ==
    /\ app = "created"
    /\ \E n \in 0..MaxCropRows :
         \E odd \in SUBSET (1..n) :
            /\ Cardinality(odd) <= MaxOddRows
            /\ startup_event(CropDisk(CropTable(n, odd)))

RequestCrops ==
    /\ Idle
    /\ \E q \in CropRequests : RecommendCrops(q[1], q[2], q[3])

RequestOther ==
    /\ Idle
    /\ \/ GetAezClimateData(Zone5)
       \/ PredictRainfall(HighlandsHumid, IntArg(1), 1)
       \/ PredictPlantingTimes(ForecastOf({3}, [m \in {3} |-> 4500]))

NextCrops == StartupCrops \/ RequestCrops \/ RequestOther \/ Return

SpecCrops == Init /\ [][NextCrops]_vars



\* Crop Info and Suitability over every table and crop name of the bounds
StartupInfo ==
    /\ app = "created"
    /\ \E cols \in InfoHeaders, n \in 0..MaxInfoRows :
         \E kinds \in [1..n -> InfoRowKinds] :
            startup_event(CropDisk(InfoTable(cols, kinds)))

RequestInfo ==
    /\ Idle
    /\ \E crop_name \in CropNameInputs :
         \/ GetCropInfo(crop_name)
         \/ \E aez \in {HighlandsHumid, Zone5} : CalculateCropSuitability(crop_name, aez)

NextInfo == StartupInfo \/ RequestInfo \/ Return

SpecInfo == Init /\ [][NextInfo]_vars



\* The service: a startup that may find any one file unreadable, then every
\* request-time operation in any order
StartupService ==
    /\ app = "created"
    /\ \E unreadable \in 0..WeatherCsvStep, w \in ForecastWeatherFiles,
          table \in {EmptyCropCsv, CropTable(2, {2}), InfoTable({"crop", "TMIN", "TMAX", "RMIN", "RMAX"}, <<>>)} :
         startup_event([artifacts   |-> CropDisk(table).artifacts,
                        crop_csv    |-> table,
                        weather_csv |-> w,
                        unreadable  |-> unreadable])

RequestService ==
    /\ Idle
    /\ \E aez \in {HighlandsHumid, Zone5} :
         \/ GetAezClimateData(aez)
         \/ \E m \in {3, 12} : PredictRainfall(aez, IntArg(m), m)
         \/ PredictPlantingTimes(ForecastOf({3, 10}, [m \in {3, 10} |-> 7500]))
         \/ RecommendCrops(aez, None, Whole(800))
         \/ GetCropInfo(CropNames[2])
         \/ CalculateCropSuitability(CropNames[2], aez)
         \/ \E now \in {3, 12} : GetBestPlantingTimeForCrop(get_crop_info(CropNames[2]), aez, now)

NextService == StartupService \/ RequestService \/ Return

SpecService == Init /\ [][NextService]_vars



\* Schema Reconciler over every set of headers drawn from the pools
StartupSchema ==
    /\ app = "created"
    /\ \E ccols \in SUBSET CropHeaderPool, wcols \in SUBSET WeatherHeaderPool :
         startup_event([artifacts   |-> FittedArtifacts,
                        crop_csv    |-> [cols |-> ccols, rows |-> <<>>],
                        weather_csv |-> WeatherFile(wcols, <<>>, TRUE),
                        unreadable  |-> 0])

RequestSchema == Idle /\ GetAezClimateData(Zone5)

NextSchema == StartupSchema \/ RequestSchema \/ Return

SpecSchema == Init /\ [][NextSchema]_vars



\* Climate Aggregator over files in which rows of Zone5, and only those, may
\* hold text in their temperature cell
StartupAggregation ==
    /\ app = "created"
    /\ \E cols \in { {"AEZ", "date", "PRECTOTCORR", "T2M", "RH2M", "ALLSKY_SFC_SW_DWN"},
                     {"aez", "precipitation", "temperature"} },
          n \in 0..MaxWeatherRows :
         \E rows \in [1..n -> AggregationRows] :
            \E text \in SUBSET {i \in 1..n : rows[i].aez = Zone5} :
               startup_event(ClimateDisk(WeatherFileText(cols, rows, TRUE, text)))

LookupAggregation == Idle /\ \E aez \in {HighlandsHumid, Zone5, lower(Zone5)} : GetAezClimateData(aez)

NextAggregation == StartupAggregation \/ LookupAggregation \/ Return

SpecAggregation == Init /\ [][NextAggregation]_vars


\* Planting-Time Selector over forecasts with amounts at the thresholds,
\* laid out from several starting months
SelectOnset ==
    /\ Idle
    /\ \E drawn \in [OnsetMonths -> OnsetAmounts], start \in OnsetStarts :
         PredictPlantingTimes(
            ForecastFrom([m \in 1..12 |-> IF m \in OnsetMonths THEN drawn[m] ELSE 1000], start))

NextOnset == StartupFixed \/ SelectOnset \/ Return

SpecOnset == Init /\ [][NextOnset]_vars


\* the bulk and the single-crop scorer over crop tables with every trait
\* column and climates from the default table and from the weather file
StartupScoring ==
    /\ app = "created"
    /\ \E table \in ScoredTables : startup_event(ScoredDisk(table))

RequestScoring ==
    /\ Idle
    /\ \/ \E q \in ScoredRequests : RecommendCrops(q[1], q[2], q[3])
       \/ \E crop_name \in ScoredNames, aez \in ScoredAez : CalculateCropSuitability(crop_name, aez)

NextScoring == StartupScoring \/ RequestScoring \/ Return

SpecScoring == Init /\ [][NextScoring]_vars


\* Climate Aggregator applied to every table of the bounds, under the column
\* mappings of a loaded weather file with the same headers
StartupTotals ==
    /\ app = "created"
    /\ \E cols \in WeatherHeaders : startup_event(ClimateDisk(WeatherFile(cols, <<>>, TRUE)))

ApplyTotals ==
    /\ Idle
    /\ \E cols \in WeatherHeaders, n \in 0..MaxTotalsRows :
         /\ _detect_weather_columns(cols, EmptyDict) = weather_columns
         /\ \E rows \in [1..n -> TotalsRows] :
               ComputeWeatherByAez(WeatherFile(cols, rows, TRUE))

NextTotals == StartupTotals \/ ApplyTotals \/ Return

SpecTotals == Init /\ [][NextTotals]_vars


\* get_best_planting_time_for_crop over every fake predictor, encoder and
\* column list, in three months of the clock
RequestBest ==
    /\ Idle
    /\ \E aez \in ForecastAez, now \in {3, 7, 12} : GetBestPlantingTimeForCrop(None, aez, now)

NextBest == StartupForecast \/ RequestBest \/ Return

SpecBest == Init /\ [][NextBest]_vars

-----------------------------------------------------------------------------
(* Claims *)

SummaryFields ==
    {"avg_temperature", "avg_rainfall", "avg_humidity", "avg_solar",
     "temp_variability", "rainfall_variability"}

Looked == call.op = "get_aez_climate_data"

KeyMatches(aez) ==
    IsDict(weather_by_aez) /\
    \E i \in DOMAIN weather_by_aez.items :
        \/ weather_by_aez.items[i].key = aez
        \/ lower(weather_by_aez.items[i].key) = lower(aez)

DefaultNames == {HighlandsHumid, UpperMidlands, LowerMidlands, CoastalLowlands, AridLowlands}

DefaultMatches(aez) ==
    \E name \in DefaultNames :
        \/ name = aez
        \/ str_in(lower(name), lower(aez))
        \/ str_in(lower(aez), lower(name))

\* C2: an AEZ that matches no key of the computed table and none of the five
\* default names resolves to exactly 25.0 / 1000.0 / 65.0 / 200.0 / 2.5 / 200.0.
C2_GenericFallback ==
    (Looked /\ ~KeyMatches(call.aez) /\ ~DefaultMatches(call.aez)) =>
        /\ ret.k = "value"
        /\ ret.val = [avg_temperature |-> Whole(25), avg_rainfall |-> Whole(1000),
                      avg_humidity |-> Whole(65), avg_solar |-> Whole(200),
                      temp_variability |-> Lit(25), rainfall_variability |-> Whole(200)]

C2_Witness ==
    /\ Looked
    /\ weather_by_aez # EmptyDict
    /\ ~KeyMatches(call.aez)
    /\ ~DefaultMatches(call.aez)
    /\ call.aez # <<>>
    /\ ret.val.avg_rainfall = Whole(1000)

\* C3 (as claimed): for every valid AEZ (a key of the computed table, exactly
\* or up to case, or a string matching one of the five named zones) the
\* summary returned has avg_rainfall > 0 and 0 <= avg_temperature <= 45.
C3_PlausibleClimate ==
    (Looked /\ (KeyMatches(call.aez) \/ DefaultMatches(call.aez))) =>
        /\ Gt(ret.val.avg_rainfall, Whole(0))
        /\ Le(Whole(0), ret.val.avg_temperature)
        /\ Le(ret.val.avg_temperature, Whole(45))

\* the lowest index of a set of indices
Lowest(S) == CHOOSE i \in S : \A j \in S : i <= j

\* C4: resolution takes the first step that matches, in the order exact
\* computed key, case-insensitive computed key (first in table order), exact
\* default name, substring of a default name in either direction (first in
\* table order), generic fallback; without a computed summary
\* "Highlands (Humid)" resolves to 18.0 / 1500.0 / 75.0 / 180.0 / 2.0 / 300.0.
C4_ResolutionOrder ==
    Looked =>
        LET a       == call.aez
            items   == IF IsDict(weather_by_aez) THEN weather_by_aez.items ELSE <<>>
            exact   == {i \in DOMAIN items : items[i].key = a}
            nocase  == {i \in DOMAIN items : lower(items[i].key) = lower(a)}
            named   == {i \in DOMAIN defaults.items : defaults.items[i].key = a}
            partial == {i \in DOMAIN defaults.items :
                            \/ str_in(lower(defaults.items[i].key), lower(a))
                            \/ str_in(lower(a), lower(defaults.items[i].key))}
        IN  /\ ret.k = "value"
            /\ exact # {} => \A i \in exact : ret.val = items[i].val
            /\ (exact = {} /\ nocase # {}) => ret.val = items[Lowest(nocase)].val
            /\ (nocase = {} /\ named # {}) => \A i \in named : ret.val = defaults.items[i].val
            /\ (nocase = {} /\ named = {} /\ partial # {}) =>
                    ret.val = defaults.items[Lowest(partial)].val
            /\ (nocase = {} /\ partial = {}) => ret.val.avg_solar = Whole(200) /\ ret.val.avg_humidity = Whole(65)
            /\ (items = <<>> /\ a = HighlandsHumid) =>
                    ret.val = [avg_temperature |-> Whole(18), avg_rainfall |-> Whole(1500),
                               avg_humidity |-> Whole(75), avg_solar |-> Whole(180),
                               temp_variability |-> Whole(2), rainfall_variability |-> Whole(300)]

\* a computed summary under a case variant of a default name wins over the default
C4_Witness ==
    /\ Looked
    /\ call.aez = HighlandsHumid
    /\ IsDict(weather_by_aez)
    /\ ~DictHas(weather_by_aez, HighlandsHumid)
    /\ DictHas(weather_by_aez, lower(HighlandsHumid))
    /\ ret.val = DictGet(weather_by_aez, lower(HighlandsHumid))
    /\ ret.val # DictGet(defaults, HighlandsHumid)

Forecast == call.op = "predict_rainfall"

\* C5: a predict_rainfall call that returns has exactly 12 entries in
\* monthly_forecast, one per calendar month, each with amount_mm >= 0,
\* whatever the AEZ, the current month and the predictors' answers.
C5_TwelveNonNegative ==
    (Forecast /\ ret.k = "value") =>
        LET items == ret.val.monthly_forecast.items
        IN  /\ Len(items) = 12
            /\ \A i, j \in DOMAIN items : items[i].key = items[j].key => i = j
            /\ \A i \in DOMAIN items : items[i].val.amount_mm >= 0

\* the regressor answered below zero for December and above it elsewhere
C5_Witness ==
    /\ Forecast
    /\ ret.k = "value"
    /\ DictGet(models, "rainfall_regressor") = "bimodal"
    /\ DictGet(ret.val.monthly_forecast, <<"month", 12>>).amount_mm = 0
    /\ DictGet(ret.val.monthly_forecast, <<"month", 3>>).amount_mm > 0
    /\ call.current_month = 7


Planted == call.op = "predict_planting_times"

\* C6: predict_planting_times returns a list of at least 1 and at most 3 entries.
C6_OneToThree ==
    Planted => /\ ret.k = "value"
               /\ Len(ret.val) >= 1
               /\ Len(ret.val) <= 3

\* more than three candidates were found and three are returned
C6_Witness ==
    /\ Planted
    /\ Cardinality(candidates_of(call.rainfall_predictions)) > 3
    /\ Len(ret.val) = 3

\* amount_mm of a month of the forecast of the call
CallAmount(m) == DictGet(call.rainfall_predictions.monthly_forecast, <<"month", m>>).amount_mm

\* C7 (as claimed): when March is above 30 mm and October is not, the list
\* returned contains "March-April (Long rains)" and not
\* "October-November (Short rains)", whatever the other ten months carry.
C7_MarchNotOctober ==
    (Planted /\ CallAmount(3) > 3000 /\ CallAmount(10) <= 3000) =>
        /\ \E i \in DOMAIN ret.val : ret.val[i] = LongRains
        /\ \A i \in DOMAIN ret.val : ret.val[i] # ShortRains


Recommended == call.op = "recommend_crops" /\ ret.k = "value"

\* C8: recommend_crops returns at most 10 entries, each with
\* suitability_score in [0,1] (0..1000 thousandths), sorted non-increasing
\* by suitability_score.
C8_TopTenSorted ==
    Recommended =>
        /\ Len(ret.val) <= 10
        /\ \A i \in DOMAIN ret.val :
              ret.val[i].suitability_score >= 0 /\ ret.val[i].suitability_score <= 1000
        /\ \A i, j \in DOMAIN ret.val :
              i < j => ret.val[i].suitability_score >= ret.val[j].suitability_score

\* more than ten rows, of both kinds, and ten entries of two scores returned
C8_Witness ==
    /\ Recommended
    /\ Len(crop_database.rows) > 10
    /\ Len(ret.val) = 10
    /\ ret.val[1].suitability_score > ret.val[10].suitability_score


\* the temperature and rainfall the call of the state scored with
CallTemperature ==
    IF call.temperature = None
    THEN get_aez_climate_data(weather_by_aez, call.aez).avg_temperature
    ELSE call.temperature

CallRainfall ==
    IF call.rainfall = None
    THEN get_aez_climate_data(weather_by_aez, call.aez).avg_rainfall
    ELSE call.rainfall

\* the entries of the rows that were kept, in table order
Kept == recommendations_of(crop_columns, crop_database.rows, CallTemperature, CallRainfall)

\* the row of the crop table an entry came from (names are one per row)
RowOf(entry) ==
    CHOOSE i \in DOMAIN crop_database.rows :
        crop_database.rows[i][DictGet(crop_columns, "comname")] = entry.crop_name

Returned(entry) == \E i \in DOMAIN ret.val : ret.val[i] = entry

\* C9: entries of equal suitability_score are returned in the order of their
\* rows in the crop table, and of the kept rows of one score the earlier
\* rows are the ones that survive the cut to 10.
C9_StableTies ==
    Recommended =>
        LET kept == Kept
            row  == [i \in DOMAIN ret.val |-> RowOf(ret.val[i])]
            cut  == {k \in DOMAIN kept : ~Returned(kept[k])}
        IN  /\ \A i, j \in DOMAIN ret.val :
                  (i < j /\ ret.val[i].suitability_score = ret.val[j].suitability_score)
                      => row[i] < row[j]
            /\ \A k \in cut : \A i \in DOMAIN ret.val :
                  kept[k].suitability_score = ret.val[i].suitability_score
                      => row[i] < RowOf(kept[k])

\* eleven kept rows: the first ten entries tie with a row that was cut
C9_Witness ==
    /\ Recommended
    /\ Len(ret.val) = 10
    /\ ret.val[9].suitability_score = ret.val[10].suitability_score
    /\ LET kept == Kept
       IN  /\ Len(kept) > 10
           /\ \E k \in DOMAIN kept :
                 ~Returned(kept[k]) /\ kept[k].suitability_score = ret.val[10].suitability_score

NameCells ==
    LET col == DictGetOr(crop_columns, "comname", "comname")
    IN  IF col \in crop_database.cols
        THEN {crop_database.rows[i][col] : i \in DOMAIN crop_database.rows}
        ELSE {}

\* no row matches crop_name by case-insensitive equality or as a substring
NoRowMatches(crop_name) ==
    \A cell \in NameCells :
        cell.k = "str" => /\ lower(cell.s) # lower(crop_name)
                          /\ ~str_in(lower(crop_name), lower(cell.s))

\* C11 (as claimed): for a crop name that no row matches, by case-insensitive
\* equality or as a substring, calculate_crop_suitability returns score 0.0
\* with factors {error: "Crop not found"} and does not raise.
C11_CropNotFound ==
    (call.op = "calculate_crop_suitability" /\ NoRowMatches(call.crop_name))
        => ret = [k |-> "value", val |-> CropNotFound]


\* an encoder rejected the AEZ of the call (ValueError inside lines 299-309)
EncoderError ==
    \/ label_transform(DictGet(encoders, "aez_label"), call.aez).k = "ValueError"
    \/ onehot_transform(DictGet(encoders, "aez_onehot"), call.aez).k = "ValueError"

\* C12 (as claimed): an error raised while predict_rainfall encodes the AEZ is
\* re-raised to the caller; no forecast is returned after such an error.
C12_ErrorsReRaised ==
    (Forecast /\ EncoderError) => ret.k = "raise"


LoadFailed == \E i \in DOMAIN load_log : load_log[i].msg = "Error loading models"

\* every joblib artifact of load_models is in the dict it is loaded into
ArtifactsInPlace ==
    \A i \in DOMAIN load_order :
        DictHas(CASE load_order[i].into = "models"       -> models
                  [] load_order[i].into = "scalers"      -> scalers
                  [] load_order[i].into = "encoders"     -> encoders
                  [] load_order[i].into = "feature_cols" -> feature_cols,
                load_order[i].key)

C14_ReferenceDataReadOnly == [][models_loaded => UNCHANGED refdata]_vars

\* a request that read the crop table and the climate table has been answered
C14_Witness ==
    /\ models_loaded
    /\ call.op = "calculate_crop_suitability"
    /\ ret.val.score > 0
    /\ answered # None


\* `columns` maps every canonical field of `mappings` to the first of its
\* candidates that is among `cols`, and has no key for a field none of whose
\* candidates is among `cols`
FirstCandidates(mappings, cols, columns) ==
    /\ \A i \in DOMAIN mappings :
          LET names   == mappings[i].names
              present == {j \in DOMAIN names : names[j] \in cols}
          IN  IF present = {} THEN ~DictHas(columns, mappings[i].std)
              ELSE /\ DictHas(columns, mappings[i].std)
                   /\ \E j \in present : /\ DictGet(columns, mappings[i].std) = names[j]
                                         /\ \A l \in present : j <= l
    /\ \A i \in DOMAIN columns.items :
          \E j \in DOMAIN mappings : mappings[j].std = columns.items[i].key

\* the columns load_models logged for the weather file
LoggedWeatherColumns ==
    load_log[CHOOSE i \in DOMAIN load_log : load_log[i].msg = "Loaded weather data with columns"].columns

\* C15: after a load, crop_columns and weather_columns map each canonical
\* field to the first candidate of its list present among the headers, and
\* leave out exactly the fields with no candidate present; the load does not
\* raise for missing fields.
C15_FirstCandidate ==
    models_loaded =>
        /\ FirstCandidates(crop_column_mappings, crop_database.cols, crop_columns)
        /\ FirstCandidates(weather_column_mappings, LoggedWeatherColumns, weather_columns)
        /\ ~LoadFailed

\* two candidates of one field are present and the earlier one is taken,
\* and a field without a candidate is left out
C15_Witness ==
    /\ models_loaded
    /\ {"comname", "crop_name"} \subseteq crop_database.cols
    /\ "COMNAME" \notin crop_database.cols
    /\ DictGet(crop_columns, "comname") = "comname"
    /\ ~DictHas(crop_columns, "tmax")
    /\ {"rain", "rainfall"} \subseteq LoggedWeatherColumns
    /\ "PRECTOTCORR" \notin LoggedWeatherColumns
    /\ DictGet(weather_columns, "prectotcorr") = "rainfall"
    /\ ~DictHas(weather_columns, "aez")


AggregationFailed ==
    \E i \in DOMAIN load_log : load_log[i].msg = "Error computing weather by AEZ"

\* C16: when the aggregation of the weather rows throws, the climate table is
\* the empty mapping, load_models completes and the service starts, and every
\* get_aez_climate_data call is answered from the default-climate chain.
C16_AggregationFailureEmpty ==
    AggregationFailed =>
        /\ weather_by_aez = EmptyDict
        /\ models_loaded
        /\ ~LoadFailed
        /\ app = "serving"
        /\ call.op = "get_aez_climate_data"
              => ret = [k |-> "value", val |-> _get_default_climate_data(call.aez)]

\* the aggregation threw and the lookup of the Highlands, in lower case, is
\* answered by the default table
C16_Witness ==
    /\ AggregationFailed
    /\ call.op = "get_aez_climate_data"
    /\ call.aez = lower(HighlandsHumid)
    /\ ret.val = DictGet(defaults, HighlandsHumid)


\* the AEZ labels the aggregator found in the weather file
ZonesFound ==
    IF \E i \in DOMAIN load_log : load_log[i].msg = "Found AEZ zones in data"
    THEN LET zones == load_log[CHOOSE i \in DOMAIN load_log :
                                  load_log[i].msg = "Found AEZ zones in data"].zones
         IN  {zones[i] : i \in DOMAIN zones}
    ELSE {}

\* C17 (as claimed): a failed aggregation is handled per AEZ: the load does
\* not crash and an AEZ whose own aggregation succeeds keeps its computed
\* summary.  Under SpecAggregation the rows of the Highlands never hold text,
\* so the aggregation of the Highlands succeeds whenever the zone is found.
C17_PerAezFailure ==
    (app # "created") =>
        /\ models_loaded
        /\ HighlandsHumid \in ZonesFound =>
              /\ IsDict(weather_by_aez)
              /\ DictHas(weather_by_aez, HighlandsHumid)

\* the standard English calendar
EnglishMonths ==
    [n \in 1..12 |->
        CASE n = 1 -> "January" [] n = 2 -> "February" [] n = 3 -> "March"
          [] n = 4 -> "April" [] n = 5 -> "May" [] n = 6 -> "June"
          [] n = 7 -> "July" [] n = 8 -> "August" [] n = 9 -> "September"
          [] n = 10 -> "October" [] n = 11 -> "November" [] n = 12 -> "December"]

\* C18: a forecast lists the months from current_month on, wrapping from 12
\* to 1: the first entry is current_month, every month 1..12 has exactly one
\* entry under month_<n>, and that entry carries the n-th English month name.
C18_MonthsFromCurrent ==
    (Forecast /\ ret.k = "value") =>
        LET items == ret.val.monthly_forecast.items
        IN  /\ Len(items) = 12
            /\ items[1].key = <<"month", call.current_month>>
            /\ \A i \in 1..11 :
                   items[i + 1].key = <<"month", IF items[i].key[2] = 12 THEN 1 ELSE items[i].key[2] + 1>>
            /\ \A n \in 1..12 : Cardinality({i \in 1..12 : items[i].key = <<"month", n>>}) = 1
            /\ \A i \in 1..12 : items[i].val.month_name = EnglishMonths[items[i].key[2]]

\* a forecast from November on: December is second and January third
C18_Witness ==
    /\ Forecast
    /\ ret.k = "value"
    /\ call.current_month = 11
    /\ ret.val.monthly_forecast.items[2].key = <<"month", 12>>
    /\ ret.val.monthly_forecast.items[3].key = <<"month", 1>>
    /\ ret.val.monthly_forecast.items[3].val.month_name = "January"

\* the seasonal multiplier of a calendar month, in tenths
SeasonalTenths(n) ==
    IF n \in {3, 4, 5, 10, 11} THEN 15
    ELSE IF n \in {1, 2, 6, 7, 8, 9} THEN 6
    ELSE 10

\* the regressor's answer for calendar month n in the call's zone, clamped to
\* >= 0, in thousandths of a millimetre
ClampedOutput(n) ==
    LET X == feature_row(get_aez_climate_data(weather_by_aez, call.aez), n,
                         aez_encoded_of(call.aez), aez_onehot_of(call.aez))
        y == regressor_predict(DictGet(models, "rainfall_regressor"), X)
    IN  IF y.k = "num" /\ y.v > 0 THEN y.v ELSE 0

\* C19: the amount recorded for calendar month n is the regressor's answer
\* clamped to >= 0 times 1.5 for n in {3,4,5,10,11}, times 0.6 for n in
\* {1,2,6,7,8,9} and unchanged for December (reported to 2 decimals),
\* wherever the month stands in the 12 passes of the loop.
C19_SeasonalByMonth ==
    (Forecast /\ ret.k = "value") =>
        \A n \in 1..12 :
            DictGet(ret.val.monthly_forecast, <<"month", n>>).amount_mm
                = round_div(SeasonalTenths(n) * ClampedOutput(n), 100)

\* a forecast from July on of a regressor that answers 0.108 mm every month:
\* March, ninth in the loop, has 0.16, January 0.06 and December 0.11
C19_Witness ==
    /\ Forecast
    /\ ret.k = "value"
    /\ call.current_month = 7
    /\ DictGet(models, "rainfall_regressor") = "drizzle"
    /\ DictGet(ret.val.monthly_forecast, <<"month", 3>>).amount_mm = 16
    /\ DictGet(ret.val.monthly_forecast, <<"month", 1>>).amount_mm = 6
    /\ DictGet(ret.val.monthly_forecast, <<"month", 12>>).amount_mm = 11

\* amount_mm of the first forecasted month, in hundredths of a millimetre
FirstAmountMm == DictGet(ret.val.monthly_forecast, <<"month", call.current_month>>).amount_mm

\* C20 as stated: next_7days_total is amount_mm of the first forecasted month
\* times 7 / 30, to the 2 decimals the total is reported with.
C20_FromAmountMm ==
    (Forecast /\ ret.k = "value") =>
        ret.val.next_7days_total = round_div(7 * FirstAmountMm, 30)

\* C20, amended: next_7days_total is the adjusted amount of the first
\* forecasted month before its rounding to amount_mm, times 7 / 30, rounded
\* to 2 decimals; no other month has a part in it.
C20_FromUnroundedAmount ==
    (Forecast /\ ret.k = "value") =>
        ret.val.next_7days_total
            = round_div(7 * SeasonalTenths(call.current_month) * ClampedOutput(call.current_month), 3000)

\* 0.108 mm from the regressor in January: the amount is 0.0648 mm, reported
\* as amount_mm 0.06, and the total is round(0.01512, 2) = 0.02, not 0.01;
\* March of the same forecast has 0.16
C20_Witness ==
    /\ Forecast
    /\ ret.k = "value"
    /\ call.current_month = 1
    /\ DictGet(models, "rainfall_regressor") = "drizzle"
    /\ FirstAmountMm = 6
    /\ ret.val.next_7days_total = 2
    /\ DictGet(ret.val.monthly_forecast, <<"month", 3>>).amount_mm = 16


\* the calendar month before m, December before January
PrecedingMonth(m) == IF m = 1 THEN 12 ELSE m - 1

\* C21: every entry "<MonthName> (onset of rains)" of the list returned names
\* a month whose amount_mm is above 50 and more than 20 above the amount_mm
\* of the preceding calendar month (December precedes January), wherever the
\* forecast starts.
C21_OnsetEntries ==
    Planted =>
        \A i \in DOMAIN ret.val :
            (Len(ret.val[i]) = 2 /\ ret.val[i][2] = " (onset of rains)") =>
                \E m \in 1..12 :
                    /\ ret.val[i][1] = EnglishMonths[m]
                    /\ CallAmount(m) > 5000
                    /\ CallAmount(m) > CallAmount(PrecedingMonth(m)) + 2000

\* January is returned as an onset after a December of 30 mm in a forecast
\* that starts in July
C21_Witness ==
    /\ Planted
    /\ call.rainfall_predictions.monthly_forecast.items[1].key = <<"month", 7>>
    /\ CallAmount(12) = 3000
    /\ CallAmount(1) = 5001
    /\ \E i \in DOMAIN ret.val : ret.val[i] = <<"January", " (onset of rains)">>


\* month m of the call's forecast meets the onset condition
OnsetMonth(m) ==
    /\ CallAmount(m) > 5000
    /\ CallAmount(m) > CallAmount(PrecedingMonth(m)) + 2000

\* C22: when the forecast has no onset-of-rains month and neither March nor
\* October is above 30 mm, the list returned is exactly
\* ["March-April (Long rains)", "October-November (Short rains)"].
C22_HardcodedFallback ==
    (/\ Planted
     /\ \A m \in 1..12 : ~OnsetMonth(m)
     /\ CallAmount(3) <= 3000
     /\ CallAmount(10) <= 3000)
        => ret.val = <<LongRains, ShortRains>>

\* March at exactly 30 mm, a January of 50 mm that is no onset, and a
\* forecast laid out from July: the fallback list is returned
C22_Witness ==
    /\ Planted
    /\ call.rainfall_predictions.monthly_forecast.items[1].key = <<"month", 7>>
    /\ CallAmount(3) = 3000
    /\ CallAmount(10) = 1000
    /\ CallAmount(1) = 5000
    /\ \A m \in 1..12 : ~OnsetMonth(m)
    /\ ret.val = <<LongRains, ShortRains>>


\* value lies in the closed range [lo, hi]
Within(lo, value, hi) == Le(lo, value) /\ Le(value, hi)

\* the rows of the crop table whose absolute temperature range holds the
\* temperature and whose absolute rainfall range holds the rainfall of the call
PassingRows ==
    LET T == CallTemperature
        R == CallRainfall
    IN  {i \in DOMAIN crop_database.rows :
            LET c == crop_values(crop_columns, crop_database.rows[i])
            IN  Within(c.tmin, T, c.tmax) /\ Within(c.rmin, R, c.rmax)}

\* C23: recommend_crops returns only crops whose absolute temperature range
\* contains the temperature and whose absolute rainfall range contains the
\* rainfall, and the crops returned are the top 10 of all such crops: every
\* passing crop is returned when there are at most 10, and no passing crop
\* that is left out scores strictly higher than a returned one.
C23_PassingTopTen ==
    Recommended =>
        LET passing == PassingRows
            T       == CallTemperature
            R       == CallRainfall
            name(i) == crop_database.rows[i][DictGet(crop_columns, "comname")]
            out     == {i \in passing : \A j \in DOMAIN ret.val : ret.val[j].crop_name # name(i)}
        IN  /\ \A j \in DOMAIN ret.val :
                  /\ Within(ret.val[j].temperature_range.min, T, ret.val[j].temperature_range.max)
                  /\ Within(ret.val[j].rainfall_range.min, R, ret.val[j].rainfall_range.max)
                  /\ \E i \in passing : name(i) = ret.val[j].crop_name
            /\ Len(ret.val) = (IF Cardinality(passing) < 10 THEN Cardinality(passing) ELSE 10)
            /\ \A i \in out :
                  LET score == crop_entry(crop_values(crop_columns, crop_database.rows[i]), T, R).suitability_score
                  IN  \A j \in DOMAIN ret.val : score <= ret.val[j].suitability_score

\* a rainfall of 550 mm rejects the one row whose range starts at 600 mm and
\* keeps the eleven others, of which ten are returned
C23_Witness ==
    /\ Recommended
    /\ call.rainfall = Whole(550)
    /\ Len(crop_database.rows) = 12
    /\ Cardinality(PassingRows) = 11
    /\ Len(ret.val) = 10


\* 1.0 inside the optimal band and 0.7 otherwise, in tenths
BandScore(value, opmn, opmx) == IF Within(opmn, value, opmx) THEN 10 ELSE 7

\* max(0, 1 - |value - (opmn + opmx) / 2| / width) as a fraction in lowest
\* terms, width being amax - amin, or 1 when that is not positive
DistFraction(value, opmn, opmx, amin, amax) ==
    LET width2 == 2 * (IF amax.v > amin.v THEN amax.v - amin.v ELSE Unit)
        dev2   == Abs(2 * value.v - opmn.v - opmx.v)
        n      == IF dev2 >= width2 THEN 0 ELSE width2 - dev2
        g      == Gcd(n, width2)
    IN  [n |-> n \div g, d |-> width2 \div g]

\* the weighted sum of an entry at temperature T and rainfall R, clamped to
\* [0,1], as the fraction num/den of thousandths
WeightedSum(entry, T, R) ==
    LET tr   == entry.temperature_range
        rr   == entry.rainfall_range
        ts   == BandScore(T, tr.optimal_min, tr.optimal_max)
        rs   == BandScore(R, rr.optimal_min, rr.optimal_max)
        td   == DistFraction(T, tr.optimal_min, tr.optimal_max, tr.min, tr.max)
        rd   == DistFraction(R, rr.optimal_min, rr.optimal_max, rr.min, rr.max)
        den  == td.d * rd.d
        sum  == (30 * ts + 30 * rs) * den + 200 * td.n * rd.d + 200 * rd.n * td.d
    IN  [num |-> IF sum > 1000 * den THEN 1000 * den ELSE sum, den |-> den,
         unclamped |-> sum, both_optimal |-> ts = 10 /\ rs = 10]

\* C24: the suitability_score of every crop returned is
\* 0.3 temp_score + 0.3 rain_score + 0.2 temp_dist_score + 0.2 rain_dist_score,
\* clamped to [0,1] and rounded to 3 decimals (the thousandth nearest to the
\* sum), and a crop inside both of its optimal bands scores at least 0.6.
C24_WeightedScore ==
    Recommended =>
        \A j \in DOMAIN ret.val :
            LET exact == WeightedSum(ret.val[j], CallTemperature, CallRainfall)
                score == ret.val[j].suitability_score
            IN  /\ 2 * Abs(exact.num - score * exact.den) <= exact.den
                /\ exact.both_optimal => score >= 600

\* the example crop (10/40, 20/30, 200/2000, 800/1500) at 25 degrees and
\* 1000 mm: 0.3 + 0.3 + 0.2 + 0.2 * (1 - 150/1800) = 0.983
C24_Witness ==
    /\ Recommended
    /\ call.temperature = Whole(25)
    /\ call.rainfall = Whole(1000)
    /\ \E j \in DOMAIN ret.val :
          /\ ret.val[j].temperature_range = [min |-> Whole(10), max |-> Whole(40),
                                             optimal_min |-> Whole(20), optimal_max |-> Whole(30)]
          /\ ret.val[j].rainfall_range = [min |-> Whole(200), max |-> Whole(2000),
                                          optimal_min |-> Whole(800), optimal_max |-> Whole(1500)]
          /\ ret.val[j].suitability_score = 983


Scored == call.op = "calculate_crop_suitability"

\* the class of a value: inside the optimal band, else inside the absolute
\* range, else outside
FactorClass(value, opt_min, opt_max, abs_min, abs_max) ==
    IF Within(opt_min, value, opt_max) THEN "Optimal"
    ELSE IF Within(abs_min, value, abs_max) THEN "Suitable"
    ELSE "Not suitable"

\* 1.0, 0.7 and 0.3 in thousandths
Contribution(class) ==
    CASE class = "Optimal" -> 1000
      [] class = "Suitable" -> 700
      [] class = "Not suitable" -> 300

\* C25: for a crop that is found, calculate_crop_suitability classifies
\* temperature and rainfall each on its own as Optimal, Suitable or Not
\* suitable, and the score is the mean of the contributions 1.0, 0.7 and 0.3:
\* one of 0.3, 0.5, 0.65, 0.7, 0.85, 1.0 and never 0.0.
C25_FactorMean ==
    (Scored /\ get_crop_info(call.crop_name) # None) =>
        LET info    == get_crop_info(call.crop_name)
            climate == get_aez_climate_data(weather_by_aez, call.aez)
            t       == FactorClass(climate.avg_temperature, info.temp_opt_min, info.temp_opt_max,
                                   info.temp_min, info.temp_max)
            r       == FactorClass(climate.avg_rainfall, info.rainfall_opt_min, info.rainfall_opt_max,
                                   info.rainfall_min, info.rainfall_max)
        IN  /\ DictGet(ret.val.factors, "temperature") = t
            /\ DictGet(ret.val.factors, "rainfall") = r
            /\ 2 * ret.val.score = Contribution(t) + Contribution(r)
            /\ ret.val.score \in {300, 500, 650, 700, 850, 1000}

\* a temperature outside the absolute range with a rainfall inside the
\* optimal band: 0.65
C25_Witness ==
    /\ Scored
    /\ get_crop_info(call.crop_name) # None
    /\ DictGet(ret.val.factors, "temperature") = "Not suitable"
    /\ DictGet(ret.val.factors, "rainfall") = "Optimal"
    /\ ret.val.score = 650


\* the rows whose common name equals crop_name, case ignored, and the rows
\* whose common name holds crop_name as a substring, case ignored
EqualNameRows(crop_name) ==
    LET col == DictGetOr(crop_columns, "comname", "comname")
    IN  IF col \notin crop_database.cols THEN {}
        ELSE {i \in DOMAIN crop_database.rows :
                /\ crop_database.rows[i][col].k = "str"
                /\ lower(crop_database.rows[i][col].s) = lower(crop_name)}

SubstringRows(crop_name) ==
    LET col == DictGetOr(crop_columns, "comname", "comname")
    IN  IF col \notin crop_database.cols THEN {}
        ELSE {i \in DOMAIN crop_database.rows :
                /\ crop_database.rows[i][col].k = "str"
                /\ str_in(lower(crop_name), lower(crop_database.rows[i][col].s))}

\* C26 (as claimed): get_crop_info returns the first row, in table order,
\* whose common name equals the query case-insensitively; when no row does,
\* the first row whose common name contains the query as a substring; and
\* not-found only when neither kind of match exists.
C26_ExactThenSubstring ==
    call.op = "get_crop_info" =>
        LET equal == EqualNameRows(call.crop_name)
            sub   == SubstringRows(call.crop_name)
            info(i) == crop_info_of(crop_columns, crop_database.rows[i], call.crop_name)
        IN  IF equal # {} THEN ret.val = info(Min(equal))
            ELSE IF sub # {} THEN ret.val = info(Min(sub))
            ELSE ret.val = None


Aggregated == call.op = "_compute_weather_by_aez"

\* the precipitation cells of the rows of one AEZ, and the sums of those
\* cells per calendar year
DailyPrecipitation(rows, aez) ==
    LET of == SelectSeq(rows, LAMBDA r : r.aez = aez)
    IN  [i \in DOMAIN of |-> of[i].p]

YearlyPrecipitation(rows, aez) ==
    LET years == {rows[i].yr : i \in {j \in DOMAIN rows : rows[j].aez = aez}}
        RECURSIVE sums(_)
        sums(ys) == IF ys = {} THEN <<>>
                    ELSE LET y  == CHOOSE y \in ys : TRUE
                             of == SelectSeq(rows, LAMBDA r : r.aez = aez /\ r.yr = y)
                         IN  <<SumSeq([i \in DOMAIN of |-> of[i].p])>> \o sums(ys \ {y})
    IN  sums(years)

\* mean of per-year sums and mean of the daily amounts times 365, in 1/Unit
MeanOfYearlySums(rows, aez) ==
    LET s == YearlyPrecipitation(rows, aez) IN F((SumSeq(s) * Unit) \div Len(s))

DailyMeanTimes365(rows, aez) ==
    LET d == DailyPrecipitation(rows, aez) IN F(((SumSeq(d) * Unit) \div Len(d)) * 365)

\* C27 (as claimed): avg_rainfall of every AEZ of the rows is the mean of the
\* per-calendar-year precipitation sums when the table has a date field, and
\* mean(daily precipitation) x 365 whenever it has no date field.
C27_DateDecides ==
    Aggregated =>
        LET w == call.weather_data
        IN  \A i \in DOMAIN ret.val.items :
               ret.val.items[i].val.avg_rainfall =
                   IF w.cols \cap DateHeaders # {}
                   THEN MeanOfYearlySums(w.rows, ret.val.items[i].key)
                   ELSE DailyMeanTimes365(w.rows, ret.val.items[i].key)

\* C27, amended: the per-year sums are taken when the table has a date field
\* or a column named year, and the daily mean x 365 when it has neither.
C27_YearColumnDecides ==
    Aggregated =>
        LET w == call.weather_data
        IN  \A i \in DOMAIN ret.val.items :
               ret.val.items[i].val.avg_rainfall =
                   IF w.cols \cap DateHeaders # {} \/ "year" \in w.cols
                   THEN MeanOfYearlySums(w.rows, ret.val.items[i].key)
                   ELSE DailyMeanTimes365(w.rows, ret.val.items[i].key)

\* a table with a year column and no date field: two rows of Zone5 in one
\* year with 1 and 3 mm give 4 mm, not 730
C27_Witness ==
    /\ Aggregated
    /\ call.weather_data.cols \cap DateHeaders = {}
    /\ "year" \in call.weather_data.cols
    /\ Len(call.weather_data.rows) = 2
    /\ DictHas(ret.val, Zone5)
    /\ DictGet(ret.val, Zone5).avg_rainfall = Whole(4)


\* C28: for every crop that recommend_crops scores, the two divisors (the
\* widths of the absolute temperature and rainfall ranges as the code takes
\* them) are strictly positive, the weighted sum lies in [0.42, 1.0] before
\* the clamp, so that the clamp changes nothing, and the score returned lies
\* in [0.42, 1.0].
C28_DivisorsAndBounds ==
    Recommended =>
        \A j \in DOMAIN ret.val :
            LET e     == ret.val[j]
                exact == WeightedSum(e, CallTemperature, CallRainfall)
            IN  /\ range_of(e.temperature_range.min, e.temperature_range.max) > 0
                /\ range_of(e.rainfall_range.min, e.rainfall_range.max) > 0
                /\ exact.unclamped >= 420 * exact.den
                /\ exact.unclamped <= 1000 * exact.den
                /\ e.suitability_score >= 420
                /\ e.suitability_score <= 1000

\* a crop whose temperature range and rainfall range both have width zero
\* is scored, with 1.0
C28_Witness ==
    /\ Recommended
    /\ \E j \in DOMAIN ret.val :
          /\ ret.val[j].temperature_range.min = ret.val[j].temperature_range.max
          /\ ret.val[j].rainfall_range.min = ret.val[j].rainfall_range.max
          /\ ret.val[j].suitability_score = 1000


\* C29 (as claimed): every crop returned by recommend_crops(aez) with the
\* default temperature and rainfall, passed by its crop_name to
\* calculate_crop_suitability(crop_name, aez), is reported with neither the
\* temperature nor the rainfall factor "Not suitable" and a score of at
\* least 0.7.
C29_ScorersAgree ==
    (Recommended /\ call.temperature = None /\ call.rainfall = None) =>
        \A j \in DOMAIN ret.val :
            LET single == calculate_crop_suitability(ret.val[j].crop_name.s, call.aez)
            IN  /\ single # CropNotFound
                /\ DictGet(single.factors, "temperature") # "Not suitable"
                /\ DictGet(single.factors, "rainfall") # "Not suitable"
                /\ single.score >= 700


Best == call.op = "get_best_planting_time_for_crop"

\* C30: get_best_planting_time_for_crop never raises; when the forecast of
\* the AEZ fails it returns "March-April (Long rains) or October-November
\* (Short rains)", and otherwise the first element of a list that
\* predict_planting_times produces for the forecast.
C30_BestPlantingTime ==
    Best =>
        /\ ret.k = "value"
        /\ LET forecast == predict_rainfall(call.aez, call.now)
           IN  IF forecast.k = "raise" THEN ret.val = BothSeasons
               ELSE \E planting_times \in predict_planting_times(forecast.val) :
                       ret.val = Head(planting_times)

\* the regressor raised and the fixed string was returned
C30_Witness ==
    /\ Best
    /\ DictGet(models, "rainfall_regressor") = "raises"
    /\ predict_rainfall(call.aez, call.now).k = "raise"
    /\ ret = [k |-> "value", val |-> BothSeasons]

====
